---- MODULE Spec2Model ----
(***************************************************************************)
(* Verification model of the Document_agent repository: the admission gate *)
(* around the generative model (core/llm.py), the vector store             *)
(* (agents/vector_store.py), the structured extractor, the RAG-augmented   *)
(* extraction and the text preparation (agents/document_processor.py), the *)
(* post-retrieval pipeline (agents/post_retrieval.py), the chunking        *)
(* pipeline (agents/rag_chunking.py, agents/docling_parser.py), the        *)
(* pre-retrieval pipeline (agents/pre_retrieval.py), the contract          *)
(* processor (processors/document.py, core/rag.py), the template manager   *)
(* (agents/template_manager.py) and the template embeddings                *)
(* (agents/template_embeddings.py).  Each component has its own            *)
(* specification over the module's variables; the variables of the other   *)
(* components stay at their idle values.                                   *)
(***************************************************************************)
EXTENDS Integers, Sequences, FiniteSets, TLC

VARIABLES
    \* ---- generative-model gate (core/llm.py, model calls of the agents) ----
    llm,                  \* llm[c]: LLMClient c holds a loaded model (self.llm is not None)
    inference_semaphore,  \* free permits of the class attribute LLMClient._inference_semaphore
    inference_count,      \* inference_count[c]: self._inference_count of client c
    pc,                   \* pc[t]: position of thread t
    tmp,                  \* tmp[t]: value read by thread t for "_inference_count += 1"
    ret,                  \* ret[t]: what the last call of thread t returned
    generate_calls,       \* generate_calls[c]: calls of generate on client c that went to the model and completed
    \* ---- vector store (agents/vector_store.py) ----
    store_type,           \* RAGVectorStore.store_type
    backend_available,    \* FAISS_AVAILABLE / CHROMA_AVAILABLE for the store's type
    vector_store,         \* RAGVectorStore.vector_store: the in-memory index or None
    persisted,            \* the index directory under store_path on disk
    lastOp,               \* the last store operation and what it returned
    \* ---- structured extractor (agents/document_processor.py) ----
    llm_client,           \* DocumentProcessor.llm_client is set (a model is configured)
    response,             \* what the model does when it is called with the prompt
    text_input,           \* the text handed to the extractor
    op,                   \* the extractor method that was called
    outcome,              \* "returned" or "raised"
    record,               \* the dictionary returned to the caller
    stages_run,           \* the stages the last _extract_with_llm call went through, in order
    \* ---- post-retrieval pipeline (agents/post_retrieval.py) ----
    documents,            \* the documents argument
    strategies,           \* the strategies argument
    top_k,                \* the top_k argument
    reranker,             \* "ok", "off" (use_reranking is False) or "throws" (predict raises)
    scorer,               \* the relevance score predict gives a (query, content prefix) pair
    postOp,               \* the pipeline method that was called
    result,               \* the list it returned
    threshold,            \* the threshold argument of deduplicate
    max_tokens,           \* the max_tokens argument of get_final_context
    final_context,        \* the text get_final_context returned, character by character
    \* ---- chunking pipeline (agents/rag_chunking.py) ----
    source_doc,           \* the document handed to split_documents
    split_strategy,       \* RAGChunkingPipeline.strategy
    min_size,             \* the min_size argument of merge_small_chunks
    chunks,               \* the chunk list the caller holds
    chunks_before,        \* the chunk list before the last operation
    chunkOps,              \* the operations applied so far, in order
    template_files,       \* the parsed files of an indexing run, in order
    \* ---- pre-retrieval pipeline (agents/pre_retrieval.py) ----
    query,                \* the query argument of process_query
    method,               \* the method argument of process_query
    pre_llm,              \* PreRetrievalPipeline.llm_client: "absent", or what a call does
    bundle,               \* the dictionary the last process_query returned
    bundle_before,        \* the dictionary the call before that returned
    pre_calls,            \* number of calls of process_query so far
    search_queries,        \* what get_search_queries returned
    \* ---- contract processor (processors/document.py, core/rag.py) ----
    contract_text,        \* the text handed to the processor
    model_loadable,       \* the model file at model_path can be loaded
    rag_constructible,    \* SimpleRAG(templates_dir) can be constructed
    model_answer,         \* what a loaded model answers to the extraction prompt
    proc_llm,             \* DocumentProcessor.llm: "None", or a client with or without a model
    proc_rag,             \* DocumentProcessor.rag is set
    procOp,               \* the last method called
    verdict,              \* what is_contract returned
    contract_info,        \* what extract_contract_info returned
    contract_calls,        \* number of calls of extract_contract_info so far
    \* ---- RAG-augmented extraction (agents/document_processor.py) ----
    rag_enabled,          \* DocumentProcessor.rag_enabled
    rag_client,           \* DocumentProcessor.llm_client is set
    rag_response,         \* what the model does when it is called
    rag_text,             \* the text of the e-mail and its attachments
    candidates,           \* number of documents the multi-search finds
    ragOp,                \* the method that was called
    rag_result,            \* how the call ended: outcome, steps done, prompt sent, record
    search_hits,          \* for each search query, in order, the chunks the index holds nearest to it
    all_results,          \* all_results of extract_info_with_rag: the list handed to post-retrieval
    final_docs,           \* final_docs of extract_info_with_rag: the documents chosen as exemplars
    \* ---- template manager (agents/template_manager.py) ----
    directory,            \* the files of templates_dir: absent, present or unreadable
    templates,            \* TemplateManager.templates: for each stem the file it was loaded from
    dir_changes,          \* number of changes made to the directory so far
    tmOp,                  \* the last thing that happened: a change or a load
    \* ---- template embeddings (agents/template_embeddings.py) ----
    embeddings_model,     \* TemplateEmbeddings.embeddings_model: "sentence", "tfidf" or "none"
    template_texts,       \* TemplateEmbeddings.template_texts: for each name the text to embed
    template_vectors,     \* TemplateEmbeddings.template_vectors: for each name the text its vector was computed from
    cache_file,           \* template_embeddings.pkl in cache_dir: missing, unreadable or its content
    given_templates,      \* the templates argument of the last load_templates
    embedding_loads,      \* number of calls of load_templates so far
    embOp,                 \* the last thing that happened: "init" or "load"
    \* ---- text prepared for the model (agents/document_processor.py) ----
    contract_length,      \* len(contract_text): the length of the text taken from the attachments
    prepareOp,            \* the method whose preparation ran: "extract_info" or "extract_info_with_rag"
    full_text             \* full_text: the text prepared for the model, as its parts' lengths

gateVars == <<llm, inference_semaphore, inference_count, pc, tmp, ret, generate_calls>>

storeVars == <<store_type, backend_available, vector_store, persisted, lastOp>>

extractVars == <<llm_client, response, text_input, op, outcome, record, stages_run>>

postVars == <<documents, strategies, top_k, reranker, scorer, postOp, result, threshold, max_tokens, final_context>>

chunkVars == <<source_doc, split_strategy, min_size, chunks, chunks_before, chunkOps, template_files>>

preVars == <<query, method, pre_llm, bundle, bundle_before, pre_calls, search_queries>>

procVars == <<contract_text, model_loadable, rag_constructible, model_answer, proc_llm, proc_rag, procOp, verdict, contract_info, contract_calls>>

ragVars == <<rag_enabled, rag_client, rag_response, rag_text, candidates, ragOp, rag_result, search_hits, all_results, final_docs>>

templateVars == <<directory, templates, dir_changes, tmOp>>

embeddingVars == <<embeddings_model, template_texts, template_vectors, cache_file, given_templates, embedding_loads, embOp>>

prepareVars == <<contract_length, prepareOp, full_text>>

vars == <<gateVars, storeVars, extractVars, postVars, chunkVars, preVars, procVars, ragVars, templateVars, embeddingVars, prepareVars>>

\* What the operations of one component leave alone.
otherThanGate == <<storeVars, extractVars, postVars, chunkVars, preVars, procVars, ragVars, templateVars, embeddingVars, prepareVars>>

otherThanStore == <<gateVars, extractVars, postVars, chunkVars, preVars, procVars, ragVars, templateVars, embeddingVars, prepareVars>>

otherThanExtract == <<gateVars, storeVars, postVars, chunkVars, preVars, procVars, ragVars, templateVars, embeddingVars, prepareVars>>

otherThanPost == <<gateVars, storeVars, extractVars, chunkVars, preVars, procVars, ragVars, templateVars, embeddingVars, prepareVars>>

otherThanChunk == <<gateVars, storeVars, extractVars, postVars, preVars, procVars, ragVars, templateVars, embeddingVars, prepareVars>>

otherThanPre == <<gateVars, storeVars, extractVars, postVars, chunkVars, procVars, ragVars, templateVars, embeddingVars, prepareVars>>

otherThanProc == <<gateVars, storeVars, extractVars, postVars, chunkVars, preVars, ragVars, templateVars, embeddingVars, prepareVars>>

otherThanRag == <<gateVars, storeVars, extractVars, postVars, chunkVars, preVars, procVars, templateVars, embeddingVars, prepareVars>>

otherThanTemplates == <<gateVars, storeVars, extractVars, postVars, chunkVars, preVars, procVars, ragVars, embeddingVars, prepareVars>>

otherThanEmbeddings == <<gateVars, storeVars, extractVars, postVars, chunkVars, preVars, procVars, ragVars, templateVars, prepareVars>>

otherThanPrepare == <<gateVars, storeVars, extractVars, postVars, chunkVars, preVars, procVars, ragVars, templateVars, embeddingVars>>

(***************************************************************************)
(*                      GENERATIVE-MODEL GATE                              *)
(***************************************************************************)

\* Bounds of the gate model.
NThreads == 3
MaxCount == 2

Threads == 1..NThreads
Clients == {1, 2}

\* Threads 1 and 2 share one LLMClient, the others use a second instance.
ClientOf(t) == IF t <= 2 THEN 1 ELSE 2

\* Semaphore(2): the number of permits of LLMClient._inference_semaphore.
Permits == 2

\* Threads inside the "with self._inference_semaphore" block of generate.
GateHolders == {t \in Threads : pc[t] \in {"count_read", "count_write", "incall", "hung"}}

\* Threads whose generative-model invocation is in flight, on any path.
InFlight == {t \in Threads : pc[t] \in {"incall", "hung", "agent_incall", "agent_hung"}}

\* LLMClient.generate, entry: "if not self.llm: return ''", else wait at the gate.
GenerateEnter(t) ==
    /\ pc[t] = "idle"
    /\ inference_count[ClientOf(t)] < MaxCount
    /\ IF llm[ClientOf(t)]
         THEN /\ pc' = [pc EXCEPT ![t] = "acquire"]
              /\ ret' = [ret EXCEPT ![t] = "none"]
         ELSE /\ pc' = pc
              /\ ret' = [ret EXCEPT ![t] = "empty"]
    /\ UNCHANGED <<generate_calls, llm, inference_semaphore, inference_count, tmp>>
    /\ UNCHANGED otherThanGate

\* "with self._inference_semaphore:" a blocking acquire.
GenerateAcquire(t) ==
    /\ pc[t] = "acquire"
    /\ inference_semaphore > 0
    /\ inference_semaphore' = inference_semaphore - 1
    /\ pc' = [pc EXCEPT ![t] = "count_read"]
    /\ UNCHANGED <<generate_calls, llm, inference_count, tmp, ret>>
    /\ UNCHANGED otherThanGate

\* "self._inference_count += 1", the read of the attribute.
CountRead(t) ==
    /\ pc[t] = "count_read"
    /\ tmp' = [tmp EXCEPT ![t] = inference_count[ClientOf(t)]]
    /\ pc' = [pc EXCEPT ![t] = "count_write"]
    /\ UNCHANGED <<generate_calls, llm, inference_semaphore, inference_count, ret>>
    /\ UNCHANGED otherThanGate

\* "self._inference_count += 1", the store of the incremented value (the value
\* read is a temporary that is dead afterwards).
CountWrite(t) ==
    /\ pc[t] = "count_write"
    /\ inference_count' = [inference_count EXCEPT ![ClientOf(t)] = tmp[t] + 1]
    /\ tmp' = [tmp EXCEPT ![t] = 0]
    /\ pc' = [pc EXCEPT ![t] = "incall"]
    /\ UNCHANGED <<generate_calls, llm, inference_semaphore, ret>>
    /\ UNCHANGED otherThanGate

\* self.llm(...) returns; generate returns the text and leaves the with block.
GenerateReturn(t) ==
    /\ pc[t] = "incall"
    /\ inference_semaphore' = inference_semaphore + 1
    /\ pc' = [pc EXCEPT ![t] = "idle"]
    /\ ret' = [ret EXCEPT ![t] = "text"]
    /\ UNCHANGED <<llm, inference_count, tmp>>
    /\ generate_calls' = [generate_calls EXCEPT ![ClientOf(t)] = @ + 1]
    /\ UNCHANGED otherThanGate

\* self.llm(...) raises; "except Exception: return ''" inside the with block.
GenerateRaiseLeak(t) ==
    /\ pc[t] = "incall"
    /\ pc' = [pc EXCEPT ![t] = "idle"]
    /\ ret' = [ret EXCEPT ![t] = "empty"]
    /\ UNCHANGED <<llm, inference_semaphore, inference_count, tmp>>
    /\ generate_calls' = [generate_calls EXCEPT ![ClientOf(t)] = @ + 1]
    /\ UNCHANGED otherThanGate

GenerateRaise(t) ==
    /\ pc[t] = "incall"
    /\ inference_semaphore' = inference_semaphore + 1
    /\ pc' = [pc EXCEPT ![t] = "idle"]
    /\ ret' = [ret EXCEPT ![t] = "empty"]
    /\ UNCHANGED <<llm, inference_count, tmp>>
    /\ generate_calls' = [generate_calls EXCEPT ![ClientOf(t)] = @ + 1]
    /\ UNCHANGED otherThanGate

\* self.llm(...) never returns: generate has no timeout, the thread stays in the call.
GenerateHang(t) ==
    /\ pc[t] = "incall"
    /\ pc' = [pc EXCEPT ![t] = "hung"]
    /\ UNCHANGED <<generate_calls, llm, inference_semaphore, inference_count, tmp, ret>>
    /\ UNCHANGED otherThanGate

\* agents DocumentProcessor._extract_with_llm / extract_info_with_rag:
\* "response = self.llm_client(prompt, ...)", called without the gate.
AgentCall(t) ==
    /\ pc[t] = "idle"
    /\ pc' = [pc EXCEPT ![t] = "agent_incall"]
    /\ ret' = [ret EXCEPT ![t] = "none"]
    /\ UNCHANGED <<generate_calls, llm, inference_semaphore, inference_count, tmp>>
    /\ UNCHANGED otherThanGate

\* The model call of the agent returns and the record is built from its output.
AgentReturn(t) ==
    /\ pc[t] = "agent_incall"
    /\ pc' = [pc EXCEPT ![t] = "idle"]
    /\ ret' = [ret EXCEPT ![t] = "record"]
    /\ UNCHANGED <<generate_calls, llm, inference_semaphore, inference_count, tmp>>
    /\ UNCHANGED otherThanGate

\* The model call of the agent raises: "except Exception: return self._extract_simple(...)".
AgentRaise(t) ==
    /\ pc[t] = "agent_incall"
    /\ pc' = [pc EXCEPT ![t] = "idle"]
    /\ ret' = [ret EXCEPT ![t] = "simple"]
    /\ UNCHANGED <<generate_calls, llm, inference_semaphore, inference_count, tmp>>
    /\ UNCHANGED otherThanGate

\* The model call of the agent never returns: there is no timeout around it.
AgentHang(t) ==
    /\ pc[t] = "agent_incall"
    /\ pc' = [pc EXCEPT ![t] = "agent_hung"]
    /\ UNCHANGED <<generate_calls, llm, inference_semaphore, inference_count, tmp, ret>>
    /\ UNCHANGED otherThanGate

\* The steps of LLMClient.generate.
NextGenerate ==
    \E t \in Threads :
        \/ GenerateEnter(t)
        \/ GenerateAcquire(t)
        \/ CountRead(t)
        \/ CountWrite(t)
        \/ GenerateReturn(t)
        \/ GenerateRaise(t)
        \/ GenerateHang(t)

\* The steps of the agents' direct model calls.
NextAgent ==
    \E t \in Threads :
        \/ AgentCall(t)
        \/ AgentReturn(t)
        \/ AgentRaise(t)
        \/ AgentHang(t)

NextGate == NextGenerate \/ NextAgent

(***************************************************************************)
(*                            VECTOR STORE                                 *)
(***************************************************************************)

\* Bounds of the store model.
NChunks == 2
MaxAdd == 2
MaxIndex == 3
MaxTopK == 2

Chunks == 1..NChunks

RECURSIVE SeqsUpTo(_, _)
\* All sequences over S of length at most n.
SeqsUpTo(S, n) ==
    IF n = 0 THEN {<<>>}
    ELSE LET shorter == SeqsUpTo(S, n - 1)
         IN shorter \cup {Append(q, x) : q \in {r \in shorter : Len(r) = n - 1}, x \in S}

Min(a, b) == IF a <= b THEN a ELSE b

Max(a, b) == IF a >= b THEN a ELSE b

\* self.vector_store = None / an index holding docs; a directory without index
\* files, with files that do not load, or with a saved index.
NoIndex == [kind |-> "none", docs |-> <<>>]
Corrupt == [kind |-> "corrupt", docs |-> <<>>]
Index(docs) == [kind |-> "index", docs |-> docs]

\* Values returned to the caller.
RetBool(b) == [kind |-> "bool", b |-> b, items |-> <<>>]
RetList(q) == [kind |-> "list", b |-> FALSE, items |-> q]
RetNone == [kind |-> "none", b |-> FALSE, items |-> <<>>]
RetRaised == [kind |-> "raised", b |-> FALSE, items |-> <<>>]

\* "if self.store_type == 'faiss' and FAISS_AVAILABLE" / "... 'chroma' and CHROMA_AVAILABLE".
Usable(st, avail) == st \in {"faiss", "chroma"} /\ avail

RECURSIVE AddBatches(_, _, _, _, _)
\* The batch loop of add_documents from offset i: the first batch creates the
\* index (from_documents), later ones are appended (add_documents); the backend
\* throws in batch number failAt (0: never).
AddBatches(vs, docs, bs, i, failAt) ==
    IF i >= Len(docs) THEN [index |-> vs, ok |-> TRUE]
    ELSE IF failAt = (i \div bs) + 1 THEN [index |-> vs, ok |-> FALSE]
    ELSE LET batch == SubSeq(docs, i + 1, Min(i + bs, Len(docs)))
         IN AddBatches(IF vs.kind = "none" THEN Index(batch) ELSE Index(vs.docs \o batch),
                       docs, bs, i + bs, failAt)

\* The chroma branch: one from_documents call for a new index, else one
\* add_documents call per document.
ChromaAdd(vs, docs, failAt) ==
    IF vs.kind = "none"
      THEN IF failAt = 1 THEN [index |-> vs, ok |-> FALSE]
           ELSE [index |-> Index(docs), ok |-> TRUE]
      ELSE AddBatches(vs, docs, 1, 0, failAt)

\* _save_faiss_index: save_local, an exception is logged and swallowed.
SaveFaissIndex(vs, disk, saveOk) ==
    IF vs.kind = "none" THEN disk
    ELSE IF saveOk THEN vs ELSE disk

\* add_documents(documents, batch_size).
AddDocuments(docs, bs, failAt, saveOk) ==
    /\ (IF vector_store.kind = "none" THEN 0 ELSE Len(vector_store.docs)) + Len(docs) <= MaxIndex
    /\ IF docs = <<>>
         THEN /\ lastOp' = [op |-> "add", ret |-> RetBool(FALSE), threw |-> FALSE,
                            hadIndex |-> vector_store.kind # "none"]
              /\ UNCHANGED <<vector_store, persisted>>
       ELSE IF store_type = "faiss" /\ backend_available
         THEN LET r == AddBatches(vector_store, docs, bs, 0, failAt)
              IN /\ vector_store' = r.index
                 /\ persisted' = IF r.ok THEN SaveFaissIndex(r.index, persisted, saveOk)
                                 ELSE persisted
                 /\ lastOp' = [op |-> "add", ret |-> RetBool(r.ok), threw |-> ~r.ok,
                               hadIndex |-> vector_store.kind # "none"]
       ELSE IF store_type = "chroma" /\ backend_available
         THEN LET r == ChromaAdd(vector_store, docs, failAt)
                  done == r.ok /\ saveOk
              IN /\ vector_store' = r.index
                 /\ persisted' = IF done THEN r.index ELSE persisted
                 /\ lastOp' = [op |-> "add", ret |-> RetBool(done), threw |-> ~done,
                               hadIndex |-> vector_store.kind # "none"]
       ELSE /\ lastOp' = [op |-> "add", ret |-> RetBool(FALSE), threw |-> FALSE,
                          hadIndex |-> vector_store.kind # "none"]
            /\ UNCHANGED <<vector_store, persisted>>
    /\ UNCHANGED <<store_type, backend_available>>
    /\ UNCHANGED otherThanStore

\* The first top_k documents of the index, as (document, score) pairs.
Hits(vs, k) == SubSeq(vs.docs, 1, Min(k, Len(vs.docs)))

\* search without its exception handler.
SearchResultNoCatch(vs, st, k, throws) ==
    IF vs.kind = "none" THEN RetList(<<>>)
    ELSE IF st \in {"faiss", "chroma"}
      THEN IF throws THEN RetRaised ELSE RetList(Hits(vs, k))
    ELSE RetNone

\* What search(query, top_k) returns: [] without an index; the backend's hits,
\* or [] when the backend throws; for another store type the function ends
\* without a return statement.
SearchResult(vs, st, k, throws) ==
    IF vs.kind = "none" THEN RetList(<<>>)
    ELSE IF st \in {"faiss", "chroma"}
      THEN IF throws THEN RetList(<<>>) ELSE RetList(Hits(vs, k))
    ELSE RetNone

\* search(query, top_k).
Search(k, throws) ==
    /\ lastOp' = [op |-> "search", ret |-> SearchResult(vector_store, store_type, k, throws),
                  threw |-> throws /\ vector_store.kind # "none",
                  hadIndex |-> vector_store.kind # "none"]
    /\ UNCHANGED <<store_type, backend_available, vector_store, persisted>>
    /\ UNCHANGED otherThanStore

\* load that drops the in-memory index when the directory does not load.
LoadResultDropping(vs, st, avail, disk) ==
    IF st \in {"faiss", "chroma"} /\ disk.kind = "index" /\ avail
      THEN [index |-> disk, ok |-> TRUE]
      ELSE [index |-> NoIndex, ok |-> FALSE]

\* load(): load_faiss_index / load_chroma_index.  A missing directory gives False;
\* an existing one is read inside try, and a failure (files that do not load, or
\* the backend class missing) is logged and gives False.
LoadResult(vs, st, avail, disk) ==
    IF st \in {"faiss", "chroma"}
      THEN IF disk.kind = "none" THEN [index |-> vs, ok |-> FALSE]
           ELSE IF disk.kind = "corrupt" \/ ~avail THEN [index |-> vs, ok |-> FALSE]
           ELSE [index |-> disk, ok |-> TRUE]
      ELSE [index |-> vs, ok |-> FALSE]

\* load().
Load ==
    LET r == LoadResult(vector_store, store_type, backend_available, persisted)
    IN /\ vector_store' = r.index
       /\ lastOp' = [op |-> "load", ret |-> RetBool(r.ok), threw |-> FALSE,
                     hadIndex |-> vector_store.kind # "none"]
       /\ UNCHANGED <<store_type, backend_available, persisted>>
       /\ UNCHANGED otherThanStore

\* A process restart: a fresh RAGVectorStore on the same store_path.
Restart ==
    /\ vector_store' = NoIndex
    /\ lastOp' = [op |-> "init", ret |-> RetNone, threw |-> FALSE, hadIndex |-> FALSE]
    /\ UNCHANGED <<store_type, backend_available, persisted>>
    /\ UNCHANGED otherThanStore

\* The saved index files are damaged on disk.
DiskCorruption ==
    /\ persisted.kind = "index"
    /\ persisted' = Corrupt
    /\ lastOp' = [op |-> "env", ret |-> RetNone, threw |-> FALSE, hadIndex |-> FALSE]
    /\ UNCHANGED <<store_type, backend_available, vector_store>>
    /\ UNCHANGED otherThanStore

NextStore ==
    \/ \E docs \in SeqsUpTo(Chunks, MaxAdd), bs \in 1..MaxAdd, failAt \in 0..MaxAdd,
          saveOk \in BOOLEAN : AddDocuments(docs, bs, failAt, saveOk)
    \/ \E k \in 0..MaxTopK, throws \in BOOLEAN : Search(k, throws)
    \/ Load
    \/ Restart
    \/ DiskCorruption

(***************************************************************************)
(*                        STRUCTURED EXTRACTOR                             *)
(***************************************************************************)

\* Keys of the JSON object asked of the model, and keys of the returned record.
InKeys == {"document_type", "brief_description", "summary",
           "responsible_person", "deadline", "amount"}
OutKeys == {"document_type", "brief_description", "description",
            "responsible_person", "deadline", "amount"}

\* The Russian literals of the source are written in Latin letters here:
\* "Dogovor", "Dokument", "Ne ukazano", "Ne ukazan", "Ne ukazana", "tip".

\* A key the dictionary does not hold, and the JSON value null (Python None).
NoKey == "<no key>"
JNull == "<null>"
\* What a JSON object of the model can hold under a key.
Values == {NoKey, JNull, " ", "NULL", "V"}

\* str(x)
Str(v) == IF v = JNull THEN "None" ELSE v

\* x or ''
OrEmpty(v) == IF v \in {JNull, ""} THEN "" ELSE v

\* s.strip()
Strip(s) == IF s = " " THEN "" ELSE s

\* s.lower()
Lower(s) ==
    CASE s = "NULL" -> "null"
      [] s = "None" -> "none"
      [] OTHER -> s

\* data.get(key, default)
DictGet(data, key, default) == IF data[key] = NoKey THEN default ELSE data[key]

\* The methods the class body of DocumentProcessor defines.  The statements of
\* lines 130-212 (the attachment reader) follow _init_rag_components without a
\* def line of their own, so no method extract_text_from_attachments exists.
DocumentProcessorMethods ==
    {"__init__", "_init_local_model", "_init_rag_components", "extract_info",
     "_extract_with_llm", "_extract_simple", "_detect_document_type", "_find_date",
     "_find_amount", "_normalize_doc_type", "_clean_person_name", "_normalize_date",
     "_normalize_amount", "index_templates", "extract_info_with_rag",
     "_get_extraction_prompt", "_parse_llm_response"}

\* Texts handed to the extractor: blank, plain prose, a contract with date and amount.
Texts == {"blank", "prose", "contract"}

\* _detect_document_type
detect_document_type(text) == IF text = "contract" THEN "Dogovor" ELSE "Dokument"
\* _find_date
find_date(text) == IF text = "contract" THEN "01.02.2024" ELSE "Ne ukazan"
\* _find_amount
find_amount(text) == IF text = "contract" THEN "100 tenge" ELSE "Ne ukazana"

\* A key the returned dictionary does not hold.
Absent == "<absent>"

\* _extract_simple(text, subject): a dictionary of five keys.
extract_simple(text, subject) ==
    [k \in OutKeys |->
        CASE k = "document_type" -> detect_document_type(text)
          [] k = "description" -> subject
          [] k = "responsible_person" -> "Ne udalos izvlech"
          [] k = "deadline" -> find_date(text)
          [] k = "amount" -> find_amount(text)
          [] OTHER -> Absent]

\* The regex stage: per field the matches of its two patterns in priority order.
NoMatch == "<no match>"
RegexFields == InKeys \ {"summary"}
RegexCands == {<<NoMatch, NoMatch>>, <<"null", "V">>, <<"...", NoMatch>>, <<"V", NoMatch>>}

\* "if val and val.lower() not in ['none', 'null', 'string']"
RegexAccepts(m) == m # NoMatch /\ m # "" /\ Lower(m) \notin {"none", "null", "string"}

\* The first accepted match of a field, or no key.
RegexField(cands) ==
    IF RegexAccepts(cands[1]) THEN cands[1]
    ELSE IF RegexAccepts(cands[2]) THEN cands[2]
    ELSE NoKey

\* The dictionary the regex stage fills from the raw output.
RegexData(resp) ==
    [k \in InKeys |-> IF k \in RegexFields THEN RegexField(resp.rx[k]) ELSE NoKey]

\* "'brief_description' not in data or not data.get('brief_description')"
BriefMissing(data) == data["brief_description"] \in {NoKey, JNull, ""}

\* The dictionary built when json.loads failed: the regex stage, then the
\* sentence stage when brief_description is still missing.
FallbackData(resp) ==
    LET rx == RegexData(resp)
    IN IF BriefMissing(rx) /\ resp.sentences
         THEN [rx EXCEPT !["brief_description"] = "Sentences."]
         ELSE rx

\* The dictionary data of _extract_with_llm: an empty output becomes "{}" and
\* parses to the empty dictionary; garbled text fails json.loads.
ParsedData(resp) ==
    CASE resp.kind = "json" -> resp.data
      [] resp.kind = "empty" -> [k \in InKeys |-> NoKey]
      [] OTHER -> FallbackData(resp)

\* clean_val(key, default)
clean_val(data, key, default) ==
    LET val == Strip(Str(OrEmpty(DictGet(data, key, default))))
    IN IF Lower(val) \in {"string", "...", "null", "", "none", "tip"} THEN default ELSE val

\* cleaned_text2.strip()[:400]
TextHead(text) == IF text = "blank" THEN "" ELSE "Head of the text"

\* The record _extract_with_llm returns from the parsed dictionary.
Finalize(data, text) ==
    LET brief1 == clean_val(data, "brief_description", "")
        brief2 == IF brief1 = "" THEN clean_val(data, "summary", "") ELSE brief1
        brief == IF brief2 = "" THEN TextHead(text) ELSE brief2
    IN [k \in OutKeys |->
          CASE k = "document_type" -> Strip(Str(clean_val(data, "document_type", "Dogovor")))
            [] k = "brief_description" -> brief
            [] k = "description" -> clean_val(data, "summary", "")
            [] k = "responsible_person" -> clean_val(data, "responsible_person", "Ne ukazano")
            [] k = "deadline" -> clean_val(data, "deadline", "Ne ukazan")
            [] k = "amount" -> clean_val(data, "amount", "Ne ukazana")]

\* _extract_with_llm(text_input, email_subject): an exception of the model call
\* or of response['choices'][0] is caught and answered by _extract_simple.
\* The stages one _extract_with_llm call goes through: the strict parse, in its
\* except branch the regex stage and, nested in the same branch, the sentence
\* stage, then the finalize step; a call whose model raised goes through none
\* and is answered by _extract_simple.
stages_of(resp) ==
    IF resp.kind \in {"raises", "nochoice"} THEN <<>>
    ELSE <<"PARSE">>
         \o (IF resp.kind \in {"json", "empty"} THEN <<>>
             ELSE <<"REGEX_FALLBACK">>
                  \o (IF BriefMissing(RegexData(resp)) THEN <<"SENTENCE_FALLBACK">> ELSE <<>>))
         \o <<"FINALIZE">>

extract_with_llm(resp, text, subject) ==
    IF resp.kind \in {"raises", "nochoice"}
      THEN extract_simple(text, subject)
      ELSE Finalize(ParsedData(resp), text)

\* _parse_llm_response(result_text, email_subject): strict parse or {}.
parse_llm_response(resp) ==
    LET data == IF resp.kind = "json" THEN resp.data ELSE [k \in InKeys |-> NoKey]
        brief1 == Strip(Str(DictGet(data, "brief_description", "")))
        brief == IF brief1 = "" THEN Strip(Str(DictGet(data, "summary", ""))) ELSE brief1
    IN [k \in OutKeys |->
          CASE k = "document_type" -> Strip(Str(DictGet(data, "document_type", "Dogovor")))
            [] k = "brief_description" -> brief
            [] k = "description" -> Strip(Str(DictGet(data, "summary", "")))
            [] k = "responsible_person" -> Strip(Str(DictGet(data, "responsible_person", "Ne ukazano")))
            [] k = "deadline" -> Strip(Str(DictGet(data, "deadline", "Ne ukazan")))
            [] k = "amount" -> Strip(Str(DictGet(data, "amount", "Ne ukazana"))) ]

\* What the model can do when called.
JsonResponses == {[kind |-> "json", data |-> d, rx |-> [k \in RegexFields |-> <<NoMatch, NoMatch>>],
                   sentences |-> FALSE] : d \in [InKeys -> Values]}
GarbledResponses == {[kind |-> "garbled", data |-> [k \in InKeys |-> NoKey], rx |-> r,
                      sentences |-> b] : r \in [RegexFields -> RegexCands], b \in BOOLEAN}
OtherResponses == {[kind |-> kd, data |-> [k \in InKeys |-> NoKey],
                    rx |-> [k \in RegexFields |-> <<NoMatch, NoMatch>>], sentences |-> FALSE] :
                        kd \in {"empty", "raises", "nochoice"}}
Responses == JsonResponses \cup GarbledResponses \cup OtherResponses

EmptyRecord == [k \in OutKeys |-> Absent]
Subject == "Subject"

\* extract_info(email_text, email_subject, attachments): the first statement
\* looks up self.extract_text_from_attachments.
ExtractInfo ==
    /\ op = "none"
    /\ op' = "extract_info"
    /\ IF "extract_text_from_attachments" \notin DocumentProcessorMethods
         THEN outcome' = "raised" /\ record' = EmptyRecord /\ UNCHANGED stages_run
         ELSE /\ outcome' = "returned"
              /\ record' = IF llm_client THEN extract_with_llm(response, text_input, Subject)
                           ELSE extract_simple(text_input, Subject)
              /\ stages_run' = IF llm_client THEN stages_of(response) ELSE stages_run
    /\ UNCHANGED <<llm_client, response, text_input>>
    /\ UNCHANGED otherThanExtract

\* _extract_with_llm(text_input, email_subject)
ExtractWithLlm ==
    /\ op = "none"
    /\ llm_client
    /\ op' = "_extract_with_llm"
    /\ outcome' = "returned"
    /\ record' = extract_with_llm(response, text_input, Subject)
    /\ stages_run' = stages_of(response)
    /\ UNCHANGED <<llm_client, response, text_input>>
    /\ UNCHANGED otherThanExtract

\* _extract_simple(text, subject)
ExtractSimple ==
    /\ op = "none"
    /\ op' = "_extract_simple"
    /\ outcome' = "returned"
    /\ record' = extract_simple(text_input, Subject)
    /\ UNCHANGED <<llm_client, response, text_input, stages_run>>
    /\ UNCHANGED otherThanExtract

\* _parse_llm_response(result_text, email_subject), called by
\* extract_info_with_rag on the text the model returned.
ParseLlmResponse ==
    /\ op = "none"
    /\ llm_client
    /\ response.kind \in {"json", "garbled", "empty"}
    /\ op' = "_parse_llm_response"
    /\ outcome' = "returned"
    /\ record' = parse_llm_response(response)
    /\ UNCHANGED <<llm_client, response, text_input, stages_run>>
    /\ UNCHANGED otherThanExtract

NextExtract ==
    \/ ExtractInfo
    \/ ExtractWithLlm
    \/ ExtractSimple
    \/ ParseLlmResponse

(***************************************************************************)
(*                       POST-RETRIEVAL PIPELINE                           *)
(***************************************************************************)

\* Bounds of the pipeline model.
MaxDocs == 3
MaxScore == 1
MaxK == 2

\* page_content of a document: a sequence of one-word sentences, each ended by a
\* period ("w1. w2. w3.").  Contents 2 and 3 share 3 of their 4 words.
Contents == {<<5>>, <<1, 2, 3>>, <<1, 2, 3, 4>>}

\* The word "---" of the separator that _merge_documents puts between contents.
Separator == 0

\* metadata without 'rerank_score'
NoScore == -1

\* metadata without 'merged_count'
NoCount == 0

\* A retrieved document: id is the identity of the Document object (its position
\* in the input), source is metadata['source'] (the number of the file it was
\* cut from).
DocFrom(i, c, s) == [id |-> i, content |-> c, source |-> s, rerank_score |-> NoScore,
                     summary |-> <<>>, merged_count |-> NoCount, merged_from |-> <<>>]

\* The i-th document of a retrieved list with the given contents; id is the
\* identity of the Document object (its position in the input).
Doc(i, c) == DocFrom(i, c, i)

\* Lists of retrieved documents.
DocLists == {[i \in 1..Len(cs) |-> Doc(i, cs[i])] : cs \in SeqsUpTo(Contents, MaxDocs)}

\* The strategies argument: None, or names of strategies in any order.
NoneArg == <<"None">>
StrategyArgs ==
    {NoneArg} \cup
    {q \in SeqsUpTo({"rerank", "summary", "fusion"}, 3) :
        \A i, j \in 1..Len(q) : i # j => q[i] # q[j]}

\* name in strategies
Has(q, name) == \E i \in 1..Len(q) : q[i] = name

\* doc.page_content[:512]
RerankPrefix == 512
Prefix(c) == SubSeq(c, 1, Min(Len(c), RerankPrefix))

\* key=lambda x: x.metadata.get('rerank_score', 0)
SortKey(d) == IF d.rerank_score = NoScore THEN 0 ELSE d.rerank_score

\* self.reranker.predict(pairs) for one pair: the scorer gives every text of the
\* corpus a score; any other text scores 0.
predict(sc, p) == IF p \in DOMAIN sc THEN sc[p] ELSE 0

RECURSIVE SortedAscending(_)
\* sorted(documents, key=...): stable, ascending.
SortedAscending(q) ==
    IF q = <<>> THEN <<>>
    ELSE LET rest == SortedAscending(SubSeq(q, 1, Len(q) - 1))
             x == q[Len(q)]
             n == Cardinality({i \in 1..Len(rest) : SortKey(rest[i]) <= SortKey(x)})
         IN SubSeq(rest, 1, n) \o <<x>> \o SubSeq(rest, n + 1, Len(rest))

Reverse(q) == [i \in 1..Len(q) |-> q[Len(q) + 1 - i]]

\* sorted(documents, key=...)[::-1]: descending, equal keys in reversed order.
SortedReversed(q) == Reverse(SortedAscending(q))

RECURSIVE SortedDescending(_)
\* sorted(documents, key=..., reverse=True): stable, descending.
SortedDescending(q) ==
    IF q = <<>> THEN <<>>
    ELSE LET rest == SortedDescending(SubSeq(q, 1, Len(q) - 1))
             x == q[Len(q)]
             n == Cardinality({i \in 1..Len(rest) : SortKey(rest[i]) >= SortKey(x)})
         IN SubSeq(rest, 1, n) \o <<x>> \o SubSeq(rest, n + 1, Len(rest))

\* _rerank(documents, query)
rerank(docs, rr, sc) ==
    IF rr = "off" \/ docs = <<>> THEN docs
    ELSE IF rr = "throws" THEN docs
    ELSE SortedDescending([i \in 1..Len(docs) |->
                             [docs[i] EXCEPT !.rerank_score = predict(sc, Prefix(docs[i].content))]])

\* _extract_summary(text, num_sentences=3): text.split('.') gives one piece per
\* sentence and an empty piece after the last period; the first piece and the
\* non-blank ones of the last two pieces are kept.
NumSentences == 3
extract_summary(c) ==
    IF Len(c) + 1 <= NumSentences THEN c
    ELSE <<c[1], c[Len(c)]>>

\* _add_summaries(documents)
add_summaries(docs) ==
    [i \in 1..Len(docs) |-> [docs[i] EXCEPT !.summary = extract_summary(docs[i].content)]]

\* _calculate_similarity(text1, text2) > 0.7 on the first 50 words.
SimilarityWords == 50
WordSet(c) == {c[i] : i \in 1..Min(Len(c), SimilarityWords)}
Similar(c1, c2) ==
    LET inter == Cardinality(WordSet(c1) \cap WordSet(c2))
        union == Cardinality(WordSet(c1) \cup WordSet(c2))
    IN union > 0 /\ 10 * inter > 7 * union

RECURSIVE JoinContents(_)
\* "\n\n---\n\n".join(contents)
JoinContents(ds) ==
    IF Len(ds) = 1 THEN ds[1].content
    ELSE JoinContents(SubSeq(ds, 1, Len(ds) - 1)) \o <<Separator>> \o ds[Len(ds)].content

\* _merge_documents(documents)
merge_documents(ds) ==
    [ds[1] EXCEPT !.content = JoinContents(ds),
                  !.merged_count = Len(ds),
                  !.merged_from = [i \in 1..Len(ds) |-> ds[i].source]]

RECURSIVE IndexSeq(_)
\* The members of a set of indexes in increasing order.
IndexSeq(S) ==
    IF S = {} THEN <<>>
    ELSE LET m == CHOOSE x \in S : \A y \in S : x <= y
         IN <<m>> \o IndexSeq(S \ {m})

RECURSIVE FusionFromNoClaim(_, _, _, _)
\* The loop of _fusion without "used_indices.add(j)".
FusionFromNoClaim(docs, i, used, fused) ==
    IF i > Len(docs) THEN fused
    ELSE LET sim == {j \in (i + 1)..Len(docs) : Similar(docs[i].content, docs[j].content)}
             group == [n \in 1..(Cardinality(sim) + 1) |-> docs[(<<i>> \o IndexSeq(sim))[n]]]
         IN FusionFromNoClaim(docs, i + 1, used,
                              Append(fused, IF sim = {} THEN docs[i] ELSE merge_documents(group)))

RECURSIVE FusionFrom(_, _, _, _)
\* The loop of _fusion from index i, with the indexes already merged into a group.
FusionFrom(docs, i, used, fused) ==
    IF i > Len(docs) THEN fused
    ELSE IF i \in used THEN FusionFrom(docs, i + 1, used, fused)
    ELSE LET sim == {j \in (i + 1)..Len(docs) :
                        j \notin used /\ Similar(docs[i].content, docs[j].content)}
             group == [n \in 1..(Cardinality(sim) + 1) |-> docs[(<<i>> \o IndexSeq(sim))[n]]]
         IN FusionFrom(docs, i + 1, used \cup sim,
                       Append(fused, IF sim = {} THEN docs[i] ELSE merge_documents(group)))

\* _fusion(documents, query)
fusion(docs) == IF Len(docs) <= 1 THEN docs ELSE FusionFrom(docs, 1, {}, <<>>)

\* One strategy applied to a list.
Stage(name, docs, rr, sc) ==
    CASE name = "rerank" -> rerank(docs, rr, sc)
      [] name = "summary" -> add_summaries(docs)
      [] name = "fusion" -> fusion(docs)
      [] OTHER -> docs

RECURSIVE ApplyInOrder(_, _, _, _)
\* The strategies of a list applied one after the other, in the order of the list.
ApplyInOrder(names, docs, rr, sc) ==
    IF names = <<>> THEN docs
    ELSE ApplyInOrder(Tail(names), Stage(Head(names), docs, rr, sc), rr, sc)

\* process that applies the strategies in the order of its argument.
processInArgumentOrder(docs, strat, k, rr, sc) ==
    IF docs = <<>> THEN <<>>
    ELSE LET processed == ApplyInOrder(IF strat = NoneArg THEN <<"rerank", "fusion">> ELSE strat,
                                       docs, rr, sc)
         IN SubSeq(processed, 1, Min(k, Len(processed)))

\* process(documents, query, top_k, strategies)
process(docs, strat, k, rr, sc) ==
    IF docs = <<>> THEN <<>>
    ELSE LET names == IF strat = NoneArg THEN <<"rerank", "fusion">> ELSE strat
             p1 == IF Has(names, "rerank") THEN rerank(docs, rr, sc) ELSE docs
             p2 == IF Has(names, "summary") THEN add_summaries(p1) ELSE p1
             p3 == IF Has(names, "fusion") THEN fusion(p2) ELSE p2
         IN SubSeq(p3, 1, Min(k, Len(p3)))

\* A call of process.
Process ==
    /\ postOp = "none"
    /\ postOp' = "process"
    /\ result' = process(documents, strategies, top_k, reranker, scorer)
    /\ UNCHANGED <<documents, strategies, top_k, reranker, scorer, threshold, max_tokens, final_context>>
    /\ UNCHANGED otherThanPost

\* A call of _rerank.
Rerank ==
    /\ postOp = "none"
    /\ postOp' = "_rerank"
    /\ result' = rerank(documents, reranker, scorer)
    /\ UNCHANGED <<documents, strategies, top_k, reranker, scorer, threshold, max_tokens, final_context>>
    /\ UNCHANGED otherThanPost

NextPost ==
    \/ Process
    \/ Rerank

\* Bounds of the fusion, deduplication and context model.
MaxFusionDocs == 4
MaxTokens == 8

\* The files the retrieved chunks were cut from.
Sources == {1, 2}

\* Contents of retrieved chunks that overlap: the first and the second share 3
\* of their 4 words (0.75), the second and the third 4 of 5 (0.8), the first
\* and the third 3 of 5 (0.6).
FusionContents == {<<1, 2, 3>>, <<1, 2, 3, 4>>, <<1, 2, 3, 4, 5>>}

\* Lists of retrieved chunks; chunks of one list may come from the same file.
FusionLists ==
    {[i \in 1..Len(q) |-> DocFrom(i, q[i][1], q[i][2])] :
        q \in SeqsUpTo(FusionContents \X Sources, MaxFusionDocs)}

\* A threshold is a fraction num/den; "threshold: float = 0.95".
DefaultThreshold == [num |-> 95, den |-> 100]
Thresholds == {DefaultThreshold, [num |-> 7, den |-> 10], [num |-> 1, den |-> 2]}

\* _calculate_similarity(text1, text2) > threshold
SimilarAbove(c1, c2, th) ==
    LET inter == Cardinality(WordSet(c1) \cap WordSet(c2))
        union == Cardinality(WordSet(c1) \cup WordSet(c2))
    IN IF union > 0 THEN th.den * inter > th.num * union
       ELSE 0 > th.num

RECURSIVE DeduplicateFromLastOnly(_, _, _, _)
\* The loop of deduplicate comparing a document with the last kept one only.
DeduplicateFromLastOnly(docs, th, i, unique) ==
    IF i > Len(docs) THEN unique
    ELSE IF unique # <<>> /\ SimilarAbove(docs[i].content, unique[Len(unique)].content, th)
           THEN DeduplicateFromLastOnly(docs, th, i + 1, unique)
           ELSE DeduplicateFromLastOnly(docs, th, i + 1, Append(unique, docs[i]))

RECURSIVE DeduplicateFrom(_, _, _, _)
\* The loop of deduplicate from index i, with the documents kept so far.
DeduplicateFrom(docs, th, i, unique) ==
    IF i > Len(docs) THEN unique
    ELSE IF \E u \in 1..Len(unique) : SimilarAbove(docs[i].content, unique[u].content, th)
           THEN DeduplicateFrom(docs, th, i + 1, unique)
           ELSE DeduplicateFrom(docs, th, i + 1, Append(unique, docs[i]))

\* deduplicate(documents, threshold)
deduplicate(docs, th) == DeduplicateFrom(docs, th, 1, <<>>)

RECURSIVE Chars(_)
\* The characters of a content "w1. w2. w3.".
Chars(c) ==
    IF c = <<>> THEN <<>>
    ELSE IF Len(c) = 1 THEN <<ToString(c[1]), ".">>
    ELSE <<ToString(c[1]), ".", " ">> \o Chars(Tail(c))

\* doc.page_content[:100]
SummaryPrefix == 100

\* doc.metadata.get('summary', doc.page_content[:100])
SummaryText(d) ==
    IF d.summary # <<>> THEN Chars(d.summary)
    ELSE SubSeq(Chars(d.content), 1, Min(Len(Chars(d.content)), SummaryPrefix))

\* part = f"[{source}]\n{summary}\n"
Part(d) == <<"[", ToString(d.source), "]", "\n">> \o SummaryText(d) \o <<"\n">>

RECURSIVE ContextParts(_, _, _, _, _)
\* The loop of get_final_context from index i: a part is appended while it fits
\* into what is left of max_chars, and the loop ends at the first that does not.
ContextParts(docs, i, current_length, max_chars, context_parts) ==
    IF i > Len(docs) THEN context_parts
    ELSE IF current_length + Len(Part(docs[i])) <= max_chars
           THEN ContextParts(docs, i + 1, current_length + Len(Part(docs[i])), max_chars,
                             Append(context_parts, Part(docs[i])))
           ELSE context_parts

RECURSIVE JoinParts(_)
\* "\n---\n".join(context_parts)
JoinParts(parts) ==
    IF parts = <<>> THEN <<>>
    ELSE IF Len(parts) = 1 THEN parts[1]
    ELSE JoinParts(SubSeq(parts, 1, Len(parts) - 1))
         \o <<"\n", "-", "-", "-", "\n">> \o parts[Len(parts)]

\* "max_chars = max_tokens * 4"
CharsPerToken == 4

\* get_final_context(documents, max_tokens)
get_final_context(docs, tokens) ==
    JoinParts(ContextParts(docs, 1, 0, tokens * CharsPerToken, <<>>))

\* A call of _fusion.
Fusion ==
    /\ postOp = "none"
    /\ postOp' = "_fusion"
    /\ result' = fusion(documents)
    /\ UNCHANGED <<documents, strategies, top_k, reranker, scorer, threshold, max_tokens, final_context>>
    /\ UNCHANGED otherThanPost

\* A call of deduplicate on the retrieved list, or on the list the call before
\* returned.
Deduplicate ==
    /\ postOp \in {"none", "deduplicate"}
    /\ postOp' = IF postOp = "none" THEN "deduplicate" ELSE "deduplicate again"
    /\ result' = deduplicate(IF postOp = "none" THEN documents ELSE result, threshold)
    /\ UNCHANGED <<documents, strategies, top_k, reranker, scorer, threshold, max_tokens, final_context>>
    /\ UNCHANGED otherThanPost

\* A call of get_final_context.
GetFinalContext ==
    /\ postOp = "none"
    /\ postOp' = "get_final_context"
    /\ final_context' = get_final_context(documents, max_tokens)
    /\ UNCHANGED <<documents, strategies, top_k, reranker, scorer, result, threshold, max_tokens>>
    /\ UNCHANGED otherThanPost

NextFusion ==
    \/ Fusion
    \/ Deduplicate
    \/ GetFinalContext

(***************************************************************************)
(*                         CHUNKING PIPELINE                               *)
(***************************************************************************)

\* Bounds of the chunking model.  A text is a sequence of lines; every line
\* that is not blank is LineSize characters long.
MaxLines == 3
LineSize == 3
ChunkSize == 7
ChunkOverlap == 3
MaxMinSize == 12
MaxChunkOps == 3

\* The character "\n" inside a chunk's content; any other element of a content
\* is the number of a line of the text.
NewlineChar == 0

\* section title "Osnovnoy tekst" (the text before the first heading)
MainSection == 0

\* c.metadata.get('chunk_id', -1)
NoChunkId == -1

\* A line is a markdown heading ("# title"), a line of body text or a blank line.
LineKinds == {"heading", "body", "blank"}

RECURSIVE CharLen(_)
\* len(page_content)
CharLen(c) ==
    IF c = <<>> THEN 0
    ELSE (IF Head(c) = NewlineChar THEN 1 ELSE LineSize) + CharLen(Tail(c))

RECURSIVE JoinLines(_)
\* "\n".join(lines)
JoinLines(ids) ==
    IF Len(ids) <= 1 THEN ids
    ELSE <<Head(ids), NewlineChar>> \o JoinLines(Tail(ids))

\* The numbers of the lines of a text that pass a test, in order.
LinesWhere(lines, Test(_)) ==
    SelectSeq([i \in 1..Len(lines) |-> i], LAMBDA i : Test(lines[i]))

\* Length of the pieces a splitter holds, joined by "\n".
Total(current) ==
    IF current = <<>> THEN 0 ELSE Len(current) * LineSize + (Len(current) - 1)

RECURSIVE PopFront(_)
\* The splitter drops pieces from the front of the emitted chunk until what is
\* left is no longer than chunk_overlap and leaves room for the next piece.
PopFront(current) ==
    IF \/ Total(current) > ChunkOverlap
       \/ /\ Total(current) + LineSize + (IF Len(current) > 0 THEN 1 ELSE 0) > ChunkSize
          /\ Total(current) > 0
    THEN PopFront(Tail(current))
    ELSE current

RECURSIVE MergeSplits(_, _, _, _)
\* The splitter packs the pieces into chunks of at most chunk_size characters,
\* consecutive chunks sharing up to chunk_overlap characters.
MergeSplits(splits, i, current, docs) ==
    IF i > Len(splits)
    THEN IF current = <<>> THEN docs ELSE Append(docs, JoinLines(current))
    ELSE LET full == /\ current # <<>>
                     /\ Total(current) + LineSize + 1 > ChunkSize
         IN MergeSplits(splits, i + 1,
                        Append(IF full THEN PopFront(current) ELSE current, splits[i]),
                        IF full THEN Append(docs, JoinLines(current)) ELSE docs)

\* splitter.split_text(text) with the separator "\n": the text is cut at the
\* line breaks, empty pieces are dropped and the rest is packed into chunks.
split_text(ids) == MergeSplits(ids, 1, <<>>, <<>>)

\* Document(page_content=..., metadata={...}) of a chunk.
Chunk(content, id, section, strategy) ==
    [content |-> content, source |-> "unknown", chunk_id |-> id,
     semantic_section |-> section, strategy |-> strategy, merged |-> FALSE,
     prev_chunk_ids |-> <<>>, next_chunk_ids |-> <<>>]

\* _split_recursive and _split_simple for one document, and _split_semantic for
\* a document of type 'section'.
split_whole(doc, strategy) ==
    LET texts == split_text(LinesWhere(doc.lines, LAMBDA k : k # "blank"))
    IN [i \in 1..Len(texts) |-> Chunk(texts[i], i - 1, MainSection, strategy)]

RECURSIVE SectionsFrom(_, _, _, _, _)
\* The loop of _extract_semantic_sections from line i.
SectionsFrom(lines, i, current_section, current_content, sections) ==
    IF i > Len(lines)
    THEN IF current_content # <<>>
         THEN Append(sections, [title |-> current_section, lines |-> current_content])
         ELSE sections
    ELSE IF lines[i] = "heading"
         THEN SectionsFrom(lines, i + 1, i, <<>>,
                           IF current_content # <<>>
                           THEN Append(sections, [title |-> current_section,
                                                  lines |-> current_content])
                           ELSE sections)
         ELSE SectionsFrom(lines, i + 1, current_section,
                           IF lines[i] # "blank" THEN Append(current_content, i)
                           ELSE current_content,
                           sections)

\* _extract_semantic_sections(text)
extract_semantic_sections(lines) ==
    LET sections == SectionsFrom(lines, 1, MainSection, <<>>, <<>>)
    IN IF sections = <<>>
       THEN <<[title |-> MainSection, lines |-> LinesWhere(lines, LAMBDA k : k # "blank")]>>
       ELSE sections

RECURSIVE SectionChunks(_, _, _)
\* The chunks of the sections from section n on; chunk_id counts on.
SectionChunks(sections, n, chunk_id) ==
    IF n > Len(sections) THEN <<>>
    ELSE LET texts == split_text(sections[n].lines)
         IN [i \in 1..Len(texts) |->
                Chunk(texts[i], chunk_id + i - 1, sections[n].title, "semantic")]
            \o SectionChunks(sections, n + 1, chunk_id + Len(texts))

\* _split_semantic for one document
split_semantic(doc) ==
    IF doc.type = "section" THEN split_whole(doc, "semantic")
    ELSE SectionChunks(extract_semantic_sections(doc.lines), 1, 0)

\* "**doc.metadata" in the metadata of every chunk of a document
WithMetadata(cs, doc) == [i \in 1..Len(cs) |-> [cs[i] EXCEPT !.source = doc.source]]

\* split_documents([doc])
split_documents(doc, strategy) ==
    WithMetadata(IF strategy = "recursive" THEN split_whole(doc, "recursive")
                 ELSE IF strategy = "semantic" THEN split_semantic(doc)
                 ELSE split_whole(doc, "simple"),
                 doc)

RECURSIVE split_all(_, _)
\* split_documents(documents): the chunks of the documents one after the other.
split_all(docs, strategy) ==
    IF docs = <<>> THEN <<>>
    ELSE split_documents(Head(docs), strategy) \o split_all(Tail(docs), strategy)

RECURSIVE MergeFrom(_, _, _)
\* The loop of merge_small_chunks from index i.
MergeFrom(cs, i, min) ==
    IF i > Len(cs) THEN <<>>
    ELSE IF CharLen(cs[i].content) < min /\ i < Len(cs)
         THEN <<[cs[i] EXCEPT !.content = cs[i].content \o <<NewlineChar, NewlineChar>>
                                              \o cs[i + 1].content,
                              !.merged = TRUE]>>
              \o MergeFrom(cs, i + 2, min)
         ELSE <<cs[i]>> \o MergeFrom(cs, i + 1, min)

\* merge_small_chunks(chunks, min_size)
merge_small_chunks(cs, min) == IF cs = <<>> THEN cs ELSE MergeFrom(cs, 1, min)

\* add_context_windows(chunks, window_size=2)
WindowSize == 2
add_context_windows(cs) ==
    [i \in 1..Len(cs) |->
        [cs[i] EXCEPT
            !.prev_chunk_ids = [j \in 1..(i - Max(1, i - WindowSize)) |->
                                   cs[Max(1, i - WindowSize) + j - 1].chunk_id],
            !.next_chunk_ids = [j \in 1..(Min(Len(cs), i + WindowSize) - i) |->
                                   cs[i + j].chunk_id]]]

\* A call of split_documents on the document.
SplitDocuments ==
    /\ chunkOps = <<>>
    /\ chunks = <<>>
    /\ chunks' = split_documents(source_doc, split_strategy)
    /\ chunks_before' = chunks
    /\ chunkOps' = Append(chunkOps, "split")
    /\ UNCHANGED <<source_doc, split_strategy, min_size, template_files>>
    /\ UNCHANGED otherThanChunk

\* A call of merge_small_chunks on the chunk list.
MergeSmallChunks ==
    /\ Len(chunkOps) < MaxChunkOps
    /\ chunks' = merge_small_chunks(chunks, min_size)
    /\ chunks_before' = chunks
    /\ chunkOps' = Append(chunkOps, "merge")
    /\ UNCHANGED <<source_doc, split_strategy, min_size, template_files>>
    /\ UNCHANGED otherThanChunk

\* A call of add_context_windows on the chunk list.
AddContextWindows ==
    /\ Len(chunkOps) < MaxChunkOps
    /\ chunks' = add_context_windows(chunks)
    /\ chunks_before' = chunks
    /\ chunkOps' = Append(chunkOps, "context")
    /\ UNCHANGED <<source_doc, split_strategy, min_size, template_files>>
    /\ UNCHANGED otherThanChunk

NextChunk ==
    \/ SplitDocuments
    \/ MergeSmallChunks
    \/ AddContextWindows

\* Bounds of the indexing model.
MaxFiles == 2
MaxSections == 2

\* "min_size: int = 512" of merge_small_chunks at the scale of LineSize and
\* ChunkSize: a chunk of one line is small, a chunk of two lines is not.
DefaultMinSize == 4

\* What extract_text_with_structure gives for a file: the full text and the
\* sections' contents; source is the stem of the file's name.
FullTexts == {<<>>, <<"body">>, <<"body", "body">>, <<"heading", "body", "body">>}
SectionContents == {<<>>, <<"body">>, <<"body", "body">>}
ParsedFiles ==
    [source : {"a", "b"}, full_text : FullTexts,
     sections : SeqsUpTo(SectionContents, MaxSections)]

\* DoclingParser.documents_to_langchain(file_path, source_name): one document
\* for the full text and one for every section that has content.
documents_to_langchain(file) ==
    IF file.full_text = <<>> THEN <<>>
    ELSE <<[type |-> "full_text", lines |-> file.full_text, source |-> file.source]>>
         \o [i \in 1..Len(SelectSeq(file.sections, LAMBDA c : c # <<>>)) |->
                [type |-> "section",
                 lines |-> SelectSeq(file.sections, LAMBDA c : c # <<>>)[i],
                 source |-> file.source]]

RECURSIVE all_documents(_)
\* all_documents of index_templates: the documents of the files in order.
all_documents(files) ==
    IF files = <<>> THEN <<>>
    ELSE documents_to_langchain(Head(files)) \o all_documents(Tail(files))

\* process_pipeline(documents, merge_small, add_context)
process_pipeline(docs, strategy, merge_small, add_context) ==
    LET split == split_all(docs, strategy)
        merged == IF merge_small THEN merge_small_chunks(split, DefaultMinSize) ELSE split
    IN IF add_context THEN add_context_windows(merged) ELSE merged

\* One indexing run: the files are converted to documents and process_pipeline
\* is called on all of them.
ProcessPipeline ==
    /\ chunkOps = <<>>
    /\ \E merge_small, add_context \in BOOLEAN :
          /\ chunks' = process_pipeline(all_documents(template_files), split_strategy,
                                        merge_small, add_context)
          /\ chunkOps' = <<"split">> \o (IF merge_small THEN <<"merge">> ELSE <<>>)
                                     \o (IF add_context THEN <<"context">> ELSE <<>>)
    /\ chunks_before' = chunks
    /\ UNCHANGED <<source_doc, split_strategy, min_size, template_files>>
    /\ UNCHANGED otherThanChunk

NextIndex == ProcessPipeline

(***************************************************************************)
(*                        PRE-RETRIEVAL PIPELINE                           *)
(***************************************************************************)

\* A string is the sequence of its pieces between single spaces
\* (str.split(' ')); the empty piece stands for one more space.  The Russian
\* words of the source are written in Latin letters.
EmptyWord == ""

\* Bounds of the pre-retrieval model.
MaxQueryLen == 2
MaxProcessCalls == 2

\* Words of the short queries: table words in both cases, a word that is part
\* of another one, a stop word and extra whitespace.
QueryWords == {"dogovor", "Dogovor", "summa", "srok", "postavki", "ofis", "ofisa", "i",
               EmptyWord}

\* Longer queries: six keywords of which the first alone is in lower case.
LongQueries == {<<"dogovor", "Arendy", "Ofisa", "Moskvy", "Tsentr", "Srok">>}

Queries == SeqsUpTo(QueryWords, MaxQueryLen) \cup LongQueries

\* str.lower() of one word
LowerWord(w) ==
    CASE w = "Dogovor" -> "dogovor"
      [] w = "Arendy" -> "arendy"
      [] w = "Ofisa" -> "ofisa"
      [] w = "Moskvy" -> "moskvy"
      [] w = "Tsentr" -> "tsentr"
      [] w = "Srok" -> "srok"
      [] OTHER -> w

\* query.lower()
LowerQuery(q) == [i \in 1..Len(q) |-> LowerWord(q[i])]

\* word in text, for single words: the word is a substring of a piece.
IsPart(w, piece) == w = piece \/ (w = "ofis" /\ piece = "ofisa")
ContainsWord(q, w) == \E i \in 1..Len(q) : IsPart(w, q[i])

\* phrase in text, for phrases of whole words
ContainsPhrase(q, phrase) ==
    \E i \in 1..(Len(q) - Len(phrase) + 1) : SubSeq(q, i, i + Len(phrase) - 1) = phrase

\* stop_words and the words of at most two letters (of the words in use)
StopWords == {"i", "ili", "no", "chto", "v", "na", "dlya", "po", "eto"}
ShortWords == {"i", "v", "na", "no", "po"}

\* _extract_keywords(query)
extract_keywords(q) ==
    SelectSeq(LowerQuery(SelectSeq(q, LAMBDA w : w # EmptyWord)),
              LAMBDA w : w \notin StopWords /\ w \notin ShortWords)

RECURSIVE UniqueKeepLast(_)
\* The elements of a list without repetitions, each at its last place.
UniqueKeepLast(q) ==
    IF q = <<>> THEN <<>>
    ELSE IF \E i \in 2..Len(q) : q[i] = Head(q)
         THEN UniqueKeepLast(Tail(q))
         ELSE <<Head(q)>> \o UniqueKeepLast(Tail(q))

RECURSIVE UniqueInOrder(_)
\* The "seen" loop: the elements of a list without repetitions, each at its
\* first place.
UniqueInOrder(q) ==
    IF q = <<>> THEN <<>>
    ELSE LET front == UniqueInOrder(SubSeq(q, 1, Len(q) - 1))
         IN IF \E i \in 1..Len(front) : front[i] = q[Len(q)]
            THEN front
            ELSE Append(front, q[Len(q)])

\* str.replace(word, replacement, 1) for a word that is a whole piece
ReplaceFirst(q, w, repl) ==
    IF \E i \in 1..Len(q) : q[i] = w
    THEN LET i == CHOOSE i \in 1..Len(q) : q[i] = w /\ \A j \in 1..(i - 1) : q[j] # w
         IN SubSeq(q, 1, i - 1) \o repl \o SubSeq(q, i + 1, Len(q))
    ELSE q

\* re.compile(re.escape(word), re.IGNORECASE).sub(replacement, text, count=1)
ReplaceFirstIgnoreCase(q, w, repl) ==
    IF \E i \in 1..Len(q) : LowerWord(q[i]) = w
    THEN LET i == CHOOSE i \in 1..Len(q) :
                      LowerWord(q[i]) = w /\ \A j \in 1..(i - 1) : LowerWord(q[j]) # w
         IN SubSeq(q, 1, i - 1) \o repl \o SubSeq(q, i + 1, Len(q))
    ELSE q

\* the synonyms table of _generate_synonyms_variants
Synonyms(k) ==
    CASE k = "dogovor" -> << <<"kontrakt">>, <<"soglashenie">>, <<"soglas">> >>
      [] k = "kontrakt" -> << <<"dogovor">>, <<"soglashenie">> >>
      [] k = "summa" -> << <<"stoimost">>, <<"summa", "deneg">>, <<"tsena">> >>
      [] k = "srok" -> << <<"data">>, <<"period">>, <<"vremennoy", "promezhutok">> >>
      [] k = "klient" -> << <<"zakazchik">>, <<"partner">>, <<"storona">> >>
      [] k = "postavshchik" -> << <<"prodavets">>, <<"ispolnitel">>, <<"postavshchik", "uslug">> >>
      [] k = "oplata" -> << <<"raschet">>, <<"platezh">>, <<"schet">> >>
      [] k = "uslovie" -> << <<"punkt">>, <<"trebovanie">>, <<"polozhenie">> >>
      [] OTHER -> <<>>

RECURSIVE SynonymCandidates(_, _)
\* query.replace(keyword, synonym, 1) for every keyword and each of its synonyms
SynonymCandidates(q, keywords) ==
    IF keywords = <<>> THEN <<>>
    ELSE [i \in 1..Len(Synonyms(Head(keywords))) |->
             ReplaceFirst(q, Head(keywords), Synonyms(Head(keywords))[i])]
         \o SynonymCandidates(q, Tail(keywords))

\* _generate_synonyms_variants(query, keywords)
generate_synonyms_variants(q, keywords) ==
    UniqueInOrder(SelectSeq(SynonymCandidates(q, keywords), LAMBDA v : v # q))

\* the legal_terms table of _expand_legal_query
LegalTerms ==
    << [term |-> <<"dogovor", "postavki">>,
        expansion |-> <<"dogovor", "postavki", "tovarov", "usloviya", "sroki">>],
       [term |-> <<"dogovor", "okazaniya", "uslug">>,
        expansion |-> <<"dogovor", "okazaniya", "uslug", "stoimost", "sroki">>],
       [term |-> <<"akt", "vypolneniya">>,
        expansion |-> <<"akt", "vypolnennykh", "rabot", "okazannykh", "uslug">>],
       [term |-> <<"dopsoglashenie">>,
        expansion |-> <<"dopolnitelnoe", "soglashenie", "k", "dogovoru">>] >>

\* _expand_legal_query(query): a list with the expansion, or the empty list for None
expand_legal_query(q) ==
    LET hits == SelectSeq(LegalTerms, LAMBDA t : ContainsPhrase(LowerQuery(q), t.term))
    IN IF hits = <<>> THEN <<>> ELSE <<hits[1].expansion>>

\* the replacements table of _simple_synonym_expansion
Replacements ==
    << <<"summa", "stoimost">>, <<"srok", "data">>, <<"uslovie", "punkt">>,
       <<"trebovanie", "obyazatelstvo">> >>

RECURSIVE ApplyReplacements(_, _, _)
\* The loop of _simple_synonym_expansion from replacement n.
ApplyReplacements(q, expanded, n) ==
    IF n > Len(Replacements) THEN expanded
    ELSE ApplyReplacements(q,
             IF ContainsWord(LowerQuery(q), Replacements[n][1])
             THEN ReplaceFirstIgnoreCase(expanded, Replacements[n][1], <<Replacements[n][2]>>)
             ELSE expanded,
             n + 1)

\* _simple_synonym_expansion(query)
simple_synonym_expansion(q) == ApplyReplacements(q, q, 1)

\* ' '.join(keywords)
keyword_only(keywords) == keywords

\* The variants of _query_expansion before the duplicates are removed.
GeneratedVariants(q) ==
    LET keywords == extract_keywords(q)
    IN <<q>>
       \o (IF Len(keywords) > 1 /\ keyword_only(keywords) # q
           THEN <<keyword_only(keywords)>> ELSE <<>>)
       \o generate_synonyms_variants(q, keywords)
       \o (IF \E w \in {"dogovor", "kontrakt", "soglashenie"} : ContainsWord(LowerQuery(q), w)
           THEN expand_legal_query(q) ELSE <<>>)
       \o (IF simple_synonym_expansion(q) # q THEN <<simple_synonym_expansion(q)>> ELSE <<>>)

\* _query_expansion(query)
query_expansion(q) ==
    IF extract_keywords(q) = <<>> THEN <<q>>
    ELSE UniqueInOrder(GeneratedVariants(q))

\* query.strip() followed by re.sub(r'\s+', ' ', ...): no extra whitespace is left.
Normalize(q) == SelectSeq(q, LAMBDA w : w # EmptyWord)

\* _query_rewriting_simple(query)
query_rewriting_simple(q) ==
    LET rewritten == Normalize(q)
    IN IF \E w \in {"dogovor", "dokument"} : ContainsWord(LowerQuery(rewritten), w)
       THEN rewritten
       ELSE <<"dokument">> \o (IF rewritten = <<>> THEN <<EmptyWord>> ELSE rewritten)

\* What the model answers when it answers.
LlmRewrite == <<"dogovor", "postavki", "usloviya">>

\* _query_rewriting_with_llm(query)
query_rewriting_with_llm(q, client) ==
    CASE client = "absent" -> q
      [] client = "raises" -> q
      [] client = "empty" -> q
      [] OTHER -> LlmRewrite

\* process_query(query, method)
process_query(q, m, client) ==
    LET base == [original |-> q, processed |-> q, variants |-> <<q>>,
                 keywords |-> extract_keywords(q), method |-> m]
    IN CASE m = "expansion" ->
              [base EXCEPT !.variants = query_expansion(q),
                           !.processed = query_expansion(q)[1]]
         [] m = "rewriting" ->
              LET processed == IF client # "absent"
                               THEN query_rewriting_with_llm(q, client)
                               ELSE query_rewriting_simple(q)
              IN [base EXCEPT !.processed = processed, !.variants = <<processed>>]
         [] m = "hybrid" ->
              IF client # "absent"
              THEN [base EXCEPT
                       !.variants = Append(query_expansion(q),
                                           query_rewriting_with_llm(q, client)),
                       !.processed = query_rewriting_with_llm(q, client)]
              ELSE [base EXCEPT !.variants = query_expansion(q),
                                !.processed = query_expansion(q)[1]]
         [] OTHER -> base

\* processed['keywords'][:5]
KeywordLimit == 5

RECURSIVE AddKeywords(_, _)
\* The loop of get_search_queries over the keywords it looks at.
AddKeywords(queries, keywords) ==
    IF keywords = <<>> THEN queries
    ELSE AddKeywords(IF \E i \in 1..Len(queries) : ContainsWord(queries[i], Head(keywords))
                     THEN queries
                     ELSE Append(queries, <<Head(keywords)>>),
                     Tail(keywords))

\* get_search_queries(processed)
get_search_queries(b) ==
    AddKeywords(b.variants, SubSeq(b.keywords, 1, Min(KeywordLimit, Len(b.keywords))))

\* The value of a dictionary variable before the first call.
NoBundle == [original |-> <<>>, processed |-> <<>>, variants |-> <<>>,
             keywords |-> <<>>, method |-> "none"]

\* A call of process_query.
ProcessQuery ==
    /\ pre_calls < MaxProcessCalls
    /\ search_queries = <<>>
    /\ bundle' = process_query(query, method, pre_llm)
    /\ bundle_before' = bundle
    /\ pre_calls' = pre_calls + 1
    /\ UNCHANGED <<query, method, pre_llm, search_queries>>
    /\ UNCHANGED otherThanPre

\* A call of get_search_queries with the bundle of the last process_query.
GetSearchQueries ==
    /\ pre_calls > 0
    /\ search_queries = <<>>
    /\ search_queries' = get_search_queries(bundle)
    /\ UNCHANGED <<query, method, pre_llm, bundle, bundle_before, pre_calls>>
    /\ UNCHANGED otherThanPre

NextPre ==
    \/ ProcessQuery
    \/ GetSearchQueries

(***************************************************************************)
(*                         CONTRACT PROCESSOR                              *)
(***************************************************************************)

\* Bound of the processor model.
MaxContractCalls == 2

\* SimpleRAG.CONTRACT_KEYWORDS
CONTRACT_KEYWORDS ==
    <<"dogovor", "kontrakt", "soglashenie", "storony", "ispolnitel", "zakazchik",
      "obyazuetsya", "predmet dogovora", "srok deystviya", "poryadok raschetov",
      "rekvizity", "otvetstvennost storon", "rastorzhenie", "podpis">>

\* the keywords of the fallback of DocumentProcessor.is_contract
FallbackKeywords == <<"dogovor", "kontrakt", "soglashenie", "storony", "obyazuetsya">>

\* The phrases a text of the model may hold.
TextPhrases == {"dogovor", "kontrakt", "storony", "predmet dogovora", "podpis", "rekvizity"}

\* kw in text_lower: a phrase of the text holds the keyword.
Occurs(kw, phrases) == kw \in phrases \/ (kw = "dogovor" /\ "predmet dogovora" \in phrases)

\* sum(1 for kw in keywords if kw in text_lower)
Matches(keywords, phrases) ==
    Cardinality({i \in 1..Len(keywords) : Occurs(keywords[i], phrases)})

\* min(1.0, matches / d) as the fraction num/den
Confidence(m, d) == [num |-> Min(m, d), den |-> d]

\* SimpleRAG.is_contract(text): confidence >= 0.4
rag_is_contract(text) ==
    LET confidence == Confidence(Matches(CONTRACT_KEYWORDS, text.phrases), 5)
    IN [is_contract |-> 10 * confidence.num >= 4 * confidence.den, confidence |-> confidence]

\* DocumentProcessor.is_contract(text) after _init_rag
is_contract(text, rag) ==
    IF rag THEN rag_is_contract(text)
    ELSE LET confidence == Confidence(Matches(FallbackKeywords, text.phrases), 3)
         IN [is_contract |-> 2 * confidence.num >= confidence.den, confidence |-> confidence]

\* _extract_basic_info(text)
extract_basic_info(text) ==
    [document_type |-> CASE text.kind = "arenda" -> "Dogovor arendy"
                         [] text.kind = "postavka" -> "Dogovor postavki"
                         [] OTHER -> "Dogovor",
     amount |-> IF text.amount THEN "amount of the text" ELSE "",
     date |-> IF text.date THEN "date of the text" ELSE "",
     summary |-> "text[:150]"]

\* _parse_llm_response(response, original_text) of processors/document.py
parse_contract_response(answer, text) ==
    [document_type |-> IF answer = "fields" THEN "type of the answer" ELSE "Dogovor",
     amount |-> IF answer = "fields" THEN "amount of the answer" ELSE "",
     date |-> IF answer = "fields" THEN "date of the answer" ELSE "",
     summary |-> IF answer = "fields" THEN "summary of the answer" ELSE "text[:100]"]

\* LLMClient.generate(prompt) as extract_contract_info sees it: "" without a
\* model and when the model call raises.
generate_text(client, answer) ==
    IF client # "model" THEN "" ELSE IF answer = "raises" THEN "" ELSE answer

\* _init_llm(): LLMClient(...) keeps self.llm = None inside the client when the
\* model cannot be loaded, and the processor holds the client all the same.
init_llm(current, loadable) ==
    IF current # "None" THEN current
    ELSE IF loadable THEN "model" ELSE "no model"

\* extract_contract_info(text) after _init_llm
extract_contract_info(text, client, answer) ==
    IF client = "None" THEN extract_basic_info(text)
    ELSE parse_contract_response(generate_text(client, answer), text)

NoVerdict == [is_contract |-> FALSE, confidence |-> [num |-> 0, den |-> 1]]
NoInfo == [document_type |-> "", amount |-> "", date |-> "", summary |-> ""]

\* A call of SimpleRAG.is_contract.
SimpleRagIsContract ==
    /\ procOp = "none"
    /\ rag_constructible
    /\ procOp' = "SimpleRAG.is_contract"
    /\ verdict' = rag_is_contract(contract_text)
    /\ UNCHANGED <<contract_text, model_loadable, rag_constructible, model_answer,
                   proc_llm, proc_rag, contract_info, contract_calls>>
    /\ UNCHANGED otherThanProc

\* A call of DocumentProcessor.is_contract.
IsContract ==
    /\ procOp = "none"
    /\ procOp' = "DocumentProcessor.is_contract"
    /\ proc_rag' = rag_constructible
    /\ verdict' = is_contract(contract_text, rag_constructible)
    /\ UNCHANGED <<contract_text, model_loadable, rag_constructible, model_answer,
                   proc_llm, contract_info, contract_calls>>
    /\ UNCHANGED otherThanProc

\* A call of DocumentProcessor.extract_contract_info.
ExtractContractInfo ==
    /\ procOp \in {"none", "extract_contract_info"}
    /\ contract_calls < MaxContractCalls
    /\ procOp' = "extract_contract_info"
    /\ proc_llm' = init_llm(proc_llm, model_loadable)
    /\ contract_info' = extract_contract_info(contract_text, proc_llm', model_answer)
    /\ contract_calls' = contract_calls + 1
    /\ UNCHANGED <<contract_text, model_loadable, rag_constructible, model_answer,
                   proc_rag, verdict>>
    /\ UNCHANGED otherThanProc

NextProc ==
    \/ SimpleRagIsContract
    \/ IsContract
    \/ ExtractContractInfo

(***************************************************************************)
(*                      RAG-AUGMENTED EXTRACTION                           *)
(***************************************************************************)

\* Bound of the model: documents found by search_multiple over all queries.
MaxCandidates == 4

\* top_k=3 of the call of post_retrieval.process
TopExamples == 3

\* No prompt was sent to the model.
NoPrompt == -1

\* How extract_info ends (see ExtractInfo).
extract_info_result(client, resp, text) ==
    IF "extract_text_from_attachments" \notin DocumentProcessorMethods
    THEN [outcome |-> "raised", record |-> EmptyRecord]
    ELSE [outcome |-> "returned",
          record |-> IF client THEN extract_with_llm(resp, text, Subject)
                     ELSE extract_simple(text, Subject)]

\* return self.extract_info(...) after the steps of the list were done.
FallBackToExtractInfo(steps, client, resp, text) ==
    [outcome |-> extract_info_result(client, resp, text).outcome,
     steps |-> steps,
     exemplars |-> NoPrompt,
     record |-> extract_info_result(client, resp, text).record]

\* extract_info_with_rag(email_text, email_subject, attachments)
extract_info_with_rag(enabled, client, resp, text, found) ==
    IF ~enabled THEN FallBackToExtractInfo(<<>>, client, resp, text)
    ELSE IF "extract_text_from_attachments" \notin DocumentProcessorMethods
    THEN \* step 1 raises AttributeError, caught by the except clause
         FallBackToExtractInfo(<<>>, client, resp, text)
    ELSE IF found > 0
    THEN \* doc[:500] on a Document raises TypeError, caught by the except clause
         FallBackToExtractInfo(<<"expand", "search", "rerank+summarize">>, client, resp, text)
    ELSE IF ~client
    THEN [outcome |-> "returned", steps |-> <<"expand", "search", "prompt">>,
          exemplars |-> NoPrompt, record |-> extract_simple(text, Subject)]
    ELSE IF resp.kind \in {"raises", "nochoice"}
    THEN FallBackToExtractInfo(<<"expand", "search", "prompt", "generate">>, client, resp, text)
    ELSE [outcome |-> "returned", steps |-> <<"expand", "search", "prompt", "generate">>,
          exemplars |-> 0, record |-> parse_llm_response(resp)]

NoRagResult == [outcome |-> "none", steps |-> <<>>, exemplars |-> NoPrompt,
                record |-> EmptyRecord]

\* A call of extract_info_with_rag.
ExtractInfoWithRag ==
    /\ ragOp = "none"
    /\ ragOp' = "extract_info_with_rag"
    /\ rag_result' = extract_info_with_rag(rag_enabled, rag_client, rag_response,
                                           rag_text, candidates)
    /\ UNCHANGED <<rag_enabled, rag_client, rag_response, rag_text, candidates>>
    /\ UNCHANGED <<search_hits, all_results, final_docs>>
    /\ UNCHANGED otherThanRag

NextRag == ExtractInfoWithRag

\* Bounds of the retrieval model: search queries of one call, and chunks the
\* index holds near one query.
MaxSearchQueries == 2
MaxHits == 2

\* top_k=5 of the call of search_multiple
SearchTopK == 5

\* What the index holds near one query: distinct chunks, nearest first.
HitLists == {h \in SeqsUpTo(Contents, MaxHits) : \A i, j \in 1..Len(h) : i # j => h[i] # h[j]}

\* RAGVectorStore.search(query, top_k) on an index: its top_k nearest chunks.
search(hits, k) == SubSeq(hits, 1, Min(k, Len(hits)))

\* RAGVectorStore.search_multiple(queries, top_k): the result of search for
\* every query, in the order of the queries.
search_multiple(hits, k) == [q \in 1..Len(hits) |-> search(hits[q], k)]

RECURSIVE CollectResults(_)
\* "for results in search_results.values(): all_results.extend(...)"
CollectResults(search_results) ==
    IF search_results = <<>> THEN <<>>
    ELSE Head(search_results) \o CollectResults(Tail(search_results))

\* The Document objects of all_results: one object per retrieved item.
ResultDocs(items) == [i \in 1..Len(items) |-> Doc(i, items[i])]

\* Steps 3 and 4 of extract_info_with_rag (the steps after the text of the
\* attachments was read and the query expanded): the multi-search, the list of
\* all its results, and post_retrieval.process on that list.
RetrieveExemplars ==
    /\ ragOp = "none"
    /\ ragOp' = "retrieve"
    /\ LET found == ResultDocs(CollectResults(search_multiple(search_hits, SearchTopK)))
       IN /\ all_results' = found
          /\ final_docs' = IF found # <<>>
                             THEN process(found, <<"rerank", "summary">>, TopExamples,
                                          reranker, scorer)
                             ELSE <<>>
    /\ UNCHANGED <<rag_enabled, rag_client, rag_response, rag_text, candidates, rag_result,
                   search_hits>>
    /\ UNCHANGED otherThanRag

NextRetrieve == RetrieveExemplars

(***************************************************************************)
(*                          TEMPLATE MANAGER                               *)
(***************************************************************************)

\* Bound of the model: changes made to the directory after construction.
MaxDirChanges == 2

\* Files that may lie in the template directory.
TemplateFiles == {"a.txt", "b.txt", "b.docx", "c.pdf"}

\* file_path.stem and file_path.suffix
Stem(f) == CASE f = "a.txt" -> "a" [] f = "b.txt" -> "b" [] f = "b.docx" -> "b" [] OTHER -> "c"
Suffix(f) == CASE f = "b.docx" -> ".docx" [] f = "c.pdf" -> ".pdf" [] OTHER -> ".txt"

Stems == {Stem(f) : f \in TemplateFiles}

\* file_path.suffix.lower() in ['.docx', '.doc', '.txt']
Supported(f) == Suffix(f) \in {".docx", ".doc", ".txt"}

\* _load_template(file_path) returns: a text file that cannot be decoded
\* raises, a Word file that cannot be read gives a template with empty content.
Loadable(dir, f) ==
    /\ Supported(f)
    /\ \/ dir[f] = "present"
       \/ dir[f] = "unreadable" /\ Suffix(f) \in {".docx", ".doc"}

NoTemplate == "<none>"

\* load_templates(): every loadable file of the directory is stored under its
\* stem, in the order of glob (of two files with one stem the later one, here
\* the file last if it is among them, stays); nothing else is touched.
load_templates(held, dir, last) ==
    [s \in Stems |->
        IF \E f \in TemplateFiles : Stem(f) = s /\ Loadable(dir, f)
        THEN IF Stem(last) = s /\ Loadable(dir, last) THEN last
             ELSE CHOOSE f \in TemplateFiles : Stem(f) = s /\ Loadable(dir, f)
        ELSE held[s]]

\* A file is added, removed, replaced or made unreadable.
ChangeDirectory(f, state) ==
    /\ dir_changes < MaxDirChanges
    /\ directory[f] # state
    /\ directory' = [directory EXCEPT ![f] = state]
    /\ dir_changes' = dir_changes + 1
    /\ tmOp' = "change"
    /\ UNCHANGED templates
    /\ UNCHANGED otherThanTemplates

\* A call of load_templates; glob yields the files in some order.
LoadTemplates(last) ==
    /\ templates' = load_templates(templates, directory, last)
    /\ tmOp' = "load"
    /\ UNCHANGED <<directory, dir_changes>>
    /\ UNCHANGED otherThanTemplates

NextTemplates ==
    \/ \E f \in TemplateFiles, state \in {"absent", "present", "unreadable"} :
          ChangeDirectory(f, state)
    \/ \E last \in TemplateFiles : LoadTemplates(last)

(***************************************************************************)
(*                        TEMPLATE EMBEDDINGS                              *)
(***************************************************************************)

\* Bound of the embeddings model.
MaxEmbeddingLoads == 3

\* Names of templates, and the texts a template can have: the text to embed is
\* the name and the first 2000 characters of the content.
TemplateNames == {"a", "b"}
TemplateContents == {"text 1", "text 2"}

\* A name the dictionary does not hold.
NoEntry == "<no entry>"

\* The templates argument: a dictionary from names to contents.
TemplateDicts == [TemplateNames -> TemplateContents \cup {NoEntry}]
EmptyDict == [n \in TemplateNames |-> NoEntry]

\* No file template_embeddings.pkl, and a file pickle.load cannot read.
NoCacheFile == [kind |-> "missing", texts |-> EmptyDict, vectors |-> EmptyDict]
UnreadableCacheFile == [kind |-> "unreadable", texts |-> EmptyDict, vectors |-> EmptyDict]

\* _create_embeddings(): nothing is done for no texts; a cache file written for
\* the same texts is loaded; otherwise a vector is computed for every text and
\* stored under its name in self.template_vectors, and texts and vectors are
\* written to the cache file.
create_embeddings(model, texts, vectors, cache) ==
    IF texts = EmptyDict THEN [vectors |-> vectors, cache |-> cache]
    ELSE IF cache.kind = "file" /\ cache.texts = texts
           THEN [vectors |-> cache.vectors, cache |-> cache]
    ELSE LET created == [n \in TemplateNames |->
                            IF model \in {"sentence", "tfidf"} /\ texts[n] # NoEntry
                              THEN texts[n] ELSE vectors[n]]
         IN [vectors |-> created,
             cache |-> [kind |-> "file", texts |-> texts, vectors |-> created]]

\* TemplateEmbeddings.load_templates(templates)
EmbeddingsLoadTemplates(T) ==
    /\ embedding_loads < MaxEmbeddingLoads
    /\ LET created == create_embeddings(embeddings_model, T, template_vectors, cache_file)
       IN /\ template_texts' = T
          /\ template_vectors' = created.vectors
          /\ cache_file' = created.cache
    /\ given_templates' = T
    /\ embedding_loads' = embedding_loads + 1
    /\ embOp' = "load"
    /\ UNCHANGED embeddings_model
    /\ UNCHANGED otherThanEmbeddings

\* A new TemplateEmbeddings(cache_dir) on the same cache directory.
EmbeddingsInit ==
    /\ embOp = "load"
    /\ template_texts' = EmptyDict
    /\ template_vectors' = EmptyDict
    /\ embOp' = "init"
    /\ UNCHANGED <<embeddings_model, cache_file, given_templates, embedding_loads>>
    /\ UNCHANGED otherThanEmbeddings

NextEmbeddings ==
    \/ \E T \in TemplateDicts : EmbeddingsLoadTemplates(T)
    \/ EmbeddingsInit

(***************************************************************************)
(*                   TEXT PREPARED FOR THE MODEL                           *)
(***************************************************************************)

\* Bound of the model: the longest contract text.
MaxTextLength == 12100

\* "if len(contract_text) > 12000", contract_text[:8000], contract_text[-4000:]
CutLimit == 12000
HeadLength == 8000
TailLength == 4000

\* len("\n\n...[PROPUSK STANDARTNYKH USLOVIY]...\n\n") in extract_info and
\* len("\n\n[...tekst sokrashchen dlya kratkosti...]\n\n") in
\* extract_info_with_rag (the markers are Russian in the source).
OmissionMarkerLength == 39
RagOmissionMarkerLength == 40

\* A text of n characters passed on whole.
WholeText(n) == [kind |-> "whole", head |-> n, marker |-> 0, tail |-> 0]

\* The head, the omission marker and the tail of a text of n characters.
HeadAndTail(n, marker) ==
    [kind |-> "cut", head |-> Min(HeadLength, n), marker |-> marker,
     tail |-> Min(TailLength, n)]

\* len(full_text)
TextLength(t) == t.head + t.marker + t.tail

\* The text prepared from a contract text of n characters.
prepare_text(n, marker) == IF n > CutLimit THEN HeadAndTail(n, marker) ELSE WholeText(n)

\* Nothing was prepared yet.
NoText == [kind |-> "none", head |-> 0, marker |-> 0, tail |-> 0]

\* The preparation of extract_info for a text of the attachments that is not
\* blank.
PrepareText ==
    /\ prepareOp = "none"
    /\ prepareOp' = "extract_info"
    /\ full_text' = prepare_text(contract_length, OmissionMarkerLength)
    /\ UNCHANGED contract_length
    /\ UNCHANGED otherThanPrepare

\* The preparation of extract_info_with_rag.
PrepareTextWithRag ==
    /\ prepareOp = "none"
    /\ prepareOp' = "extract_info_with_rag"
    /\ full_text' = prepare_text(contract_length, RagOmissionMarkerLength)
    /\ UNCHANGED contract_length
    /\ UNCHANGED otherThanPrepare

NextPrepare ==
    \/ PrepareText
    \/ PrepareTextWithRag

(***************************************************************************)
(*                          SPECIFICATIONS                                 *)
(***************************************************************************)

\* The gate component at rest.
GateStart ==
    /\ inference_semaphore = Permits
    /\ inference_count = [c \in Clients |-> 0]
    /\ pc = [t \in Threads |-> "idle"]
    /\ tmp = [t \in Threads |-> 0]
    /\ ret = [t \in Threads |-> "none"]
    /\ generate_calls = [c \in Clients |-> 0]

GateIdle == llm = [c \in Clients |-> FALSE] /\ GateStart

\* The store component at rest.
StoreIdle ==
    /\ store_type = "faiss"
    /\ backend_available = FALSE
    /\ vector_store = NoIndex
    /\ persisted = NoIndex
    /\ lastOp = [op |-> "init", ret |-> RetNone, threw |-> FALSE, hadIndex |-> FALSE]

\* The extractor component at rest.
ExtractIdle ==
    /\ llm_client = FALSE
    /\ response = [kind |-> "empty", data |-> [k \in InKeys |-> NoKey],
                   rx |-> [k \in RegexFields |-> <<NoMatch, NoMatch>>], sentences |-> FALSE]
    /\ text_input = "blank"
    /\ op = "none"
    /\ outcome = "none"
    /\ record = EmptyRecord
    /\ stages_run = <<>>

\* The pipeline component at rest.
PostIdle ==
    /\ documents = <<>>
    /\ strategies = NoneArg
    /\ top_k = 0
    /\ reranker = "off"
    /\ scorer = [c \in Contents |-> 0]
    /\ postOp = "none"
    /\ result = <<>>
    /\ threshold = DefaultThreshold
    /\ max_tokens = 0
    /\ final_context = <<>>

\* The chunking component at rest.
ChunkIdle ==
    /\ source_doc = [type |-> "document", lines |-> <<>>, source |-> "a"]
    /\ split_strategy = "recursive"
    /\ min_size = 1
    /\ chunks = <<>>
    /\ chunks_before = <<>>
    /\ chunkOps = <<>>
    /\ template_files = <<>>

\* The pre-retrieval component at rest.
PreIdle ==
    /\ query = <<>>
    /\ method = "expansion"
    /\ pre_llm = "absent"
    /\ bundle = NoBundle
    /\ bundle_before = NoBundle
    /\ pre_calls = 0
    /\ search_queries = <<>>

\* The contract processor at rest.
ProcIdle ==
    /\ contract_text = [phrases |-> {}, kind |-> "none", amount |-> FALSE, date |-> FALSE]
    /\ model_loadable = FALSE
    /\ rag_constructible = FALSE
    /\ model_answer = ""
    /\ proc_llm = "None"
    /\ proc_rag = FALSE
    /\ procOp = "none"
    /\ verdict = NoVerdict
    /\ contract_info = NoInfo
    /\ contract_calls = 0

\* The RAG-augmented extraction at rest.
RagIdle ==
    /\ rag_enabled = FALSE
    /\ rag_client = FALSE
    /\ rag_response = CHOOSE r \in OtherResponses : r.kind = "empty"
    /\ rag_text = "blank"
    /\ candidates = 0
    /\ ragOp = "none"
    /\ rag_result = NoRagResult
    /\ search_hits = <<>>
    /\ all_results = <<>>
    /\ final_docs = <<>>

\* The template manager at rest.
TemplatesIdle ==
    /\ directory = [f \in TemplateFiles |-> "absent"]
    /\ templates = [s \in Stems |-> NoTemplate]
    /\ dir_changes = 0
    /\ tmOp = "load"

\* The embeddings component at rest.
EmbeddingsIdle ==
    /\ embeddings_model = "none"
    /\ template_texts = EmptyDict
    /\ template_vectors = EmptyDict
    /\ cache_file = NoCacheFile
    /\ given_templates = EmptyDict
    /\ embedding_loads = 0
    /\ embOp = "init"

\* No text is being prepared.
PrepareIdle ==
    /\ contract_length = 1
    /\ prepareOp = "none"
    /\ full_text = NoText

\* Every component but the named one is at rest.
IdleExcept(c) ==
    /\ IF c = "gate" THEN TRUE ELSE GateIdle
    /\ IF c = "store" THEN TRUE ELSE StoreIdle
    /\ IF c = "extract" THEN TRUE ELSE ExtractIdle
    /\ IF c = "post" THEN TRUE ELSE PostIdle
    /\ IF c = "chunk" THEN TRUE ELSE ChunkIdle
    /\ IF c = "pre" THEN TRUE ELSE PreIdle
    /\ IF c = "proc" THEN TRUE ELSE ProcIdle
    /\ IF c = "rag" THEN TRUE ELSE RagIdle
    /\ IF c = "templates" THEN TRUE ELSE TemplatesIdle
    /\ IF c = "embeddings" THEN TRUE ELSE EmbeddingsIdle
    /\ IF c = "prepare" THEN TRUE ELSE PrepareIdle

\* LLMClient.__init__: the model loads or self.llm stays None.
InitGate ==
    /\ IdleExcept("gate")
    /\ llm \in [Clients -> BOOLEAN]
    /\ GateStart

\* Callers of LLMClient.generate alone.
SpecGenerate == InitGate /\ [][NextGenerate]_vars

\* Callers of LLMClient.generate together with agents calling the model directly.
SpecGate == InitGate /\ [][NextGate]_vars

\* The scheduler runs every thread that can take a step; a thread blocked at the
\* semaphore is woken when a permit is released (strong fairness of the acquire).
\* A model call that hangs is the environment's choice and carries no fairness.
GenerateFairness ==
    \A t \in Threads :
        /\ SF_vars(GenerateAcquire(t))
        /\ WF_vars(CountRead(t))
        /\ WF_vars(CountWrite(t))
        /\ WF_vars(GenerateReturn(t) \/ GenerateRaise(t))

AgentFairness ==
    \A t \in Threads : WF_vars(AgentReturn(t) \/ AgentRaise(t))

FairGenerate == SpecGenerate /\ GenerateFairness

FairGate == SpecGate /\ GenerateFairness /\ AgentFairness

\* RAGVectorStore.__init__: store_path is created, vector_store is None; the
\* directory may hold what an earlier process left there.
InitStore ==
    /\ IdleExcept("store")
    /\ store_type \in {"faiss", "chroma", "other"}
    /\ backend_available \in BOOLEAN
    /\ vector_store = NoIndex
    /\ persisted \in {NoIndex, Corrupt, Index(<<1>>)}
    /\ lastOp = [op |-> "init", ret |-> RetNone, threw |-> FALSE, hadIndex |-> FALSE]

SpecStore == InitStore /\ [][NextStore]_vars

\* DocumentProcessor.__init__ with or without a model, and the inputs of one call.
InitExtract ==
    /\ IdleExcept("extract")
    /\ llm_client \in BOOLEAN
    /\ response \in Responses
    /\ text_input \in Texts
    /\ op = "none"
    /\ outcome = "none"
    /\ record = EmptyRecord
    /\ stages_run = <<>>

SpecExtract == InitExtract /\ [][NextExtract]_vars

\* PostRetrievalPipeline.__init__ with a reranker that works, is switched off or
\* raises, and the arguments of one call.
InitPost ==
    /\ IdleExcept("post")
    /\ documents \in DocLists
    /\ strategies \in StrategyArgs
    /\ top_k \in 0..MaxK
    /\ reranker \in {"ok", "off", "throws"}
    /\ scorer \in [Contents -> 0..MaxScore]
    /\ postOp = "none"
    /\ result = <<>>
    /\ threshold = DefaultThreshold
    /\ max_tokens = 0
    /\ final_context = <<>>

SpecPost == InitPost /\ [][NextPost]_vars

\* The arguments of one call of _fusion, deduplicate or get_final_context.
InitFusion ==
    /\ IdleExcept("post")
    /\ documents \in FusionLists
    /\ strategies = NoneArg
    /\ top_k = 0
    /\ reranker = "off"
    /\ scorer = [c \in Contents |-> 0]
    /\ postOp = "none"
    /\ result = <<>>
    /\ threshold \in Thresholds
    /\ max_tokens \in 0..MaxTokens
    /\ final_context = <<>>

SpecFusion == InitFusion /\ [][NextFusion]_vars

\* Chunk lists a caller may hand to merge_small_chunks directly.
GivenChunkLists ==
    {[i \in 1..Len(q) |-> Chunk(q[i], i - 1, MainSection, "recursive")] :
        q \in SeqsUpTo({<<1>>, <<1, NewlineChar, 2>>}, MaxLines)}

\* RAGChunkingPipeline.__init__ with a strategy, and either a document to split
\* or a chunk list the caller already has.
InitChunk ==
    /\ IdleExcept("chunk")
    /\ split_strategy \in {"recursive", "semantic", "simple"}
    /\ min_size \in 1..MaxMinSize
    /\ \/ /\ source_doc \in [type : {"document", "section"},
                             lines : SeqsUpTo(LineKinds, MaxLines), source : {"a"}]
          /\ chunks = <<>>
       \/ /\ source_doc = [type |-> "document", lines |-> <<>>, source |-> "a"]
          /\ chunks \in GivenChunkLists
    /\ chunks_before = <<>>
    /\ chunkOps = <<>>
    /\ template_files = <<>>

SpecChunk == InitChunk /\ [][NextChunk]_vars

\* RAGChunkingPipeline.__init__ with a strategy, and the files of one indexing
\* run.
InitIndex ==
    /\ IdleExcept("chunk")
    /\ split_strategy \in {"recursive", "semantic", "simple"}
    /\ template_files \in SeqsUpTo(ParsedFiles, MaxFiles)
    /\ source_doc = [type |-> "document", lines |-> <<>>, source |-> "a"]
    /\ min_size = 1
    /\ chunks = <<>>
    /\ chunks_before = <<>>
    /\ chunkOps = <<>>

SpecIndex == InitIndex /\ [][NextIndex]_vars

\* PreRetrievalPipeline.__init__ with or without a model, and the arguments of
\* process_query.
InitPre ==
    /\ IdleExcept("pre")
    /\ query \in Queries
    /\ method \in {"expansion", "rewriting", "hybrid"}
    /\ pre_llm \in {"absent", "raises", "empty", "text"}
    /\ bundle = NoBundle
    /\ bundle_before = NoBundle
    /\ pre_calls = 0
    /\ search_queries = <<>>

SpecPre == InitPre /\ [][NextPre]_vars

\* DocumentProcessor.__init__: nothing is initialised yet; the environment
\* decides whether the model and the template index can be had.
InitProc ==
    /\ IdleExcept("proc")
    /\ contract_text \in [phrases : SUBSET TextPhrases, kind : {"arenda", "postavka", "none"},
                          amount : BOOLEAN, date : BOOLEAN]
    /\ model_loadable \in BOOLEAN
    /\ rag_constructible \in BOOLEAN
    /\ model_answer \in {"fields", "", "raises"}
    /\ proc_llm = "None"
    /\ proc_rag = FALSE
    /\ procOp = "none"
    /\ verdict = NoVerdict
    /\ contract_info = NoInfo
    /\ contract_calls = 0

SpecProc == InitProc /\ [][NextProc]_vars

\* DocumentProcessor.__init__: the RAG components and the model were set up or
\* not; the vector store holds what it holds.
InitRag ==
    /\ IdleExcept("rag")
    /\ rag_enabled \in BOOLEAN
    /\ rag_client \in BOOLEAN
    /\ rag_response \in OtherResponses
    /\ rag_text \in Texts
    /\ candidates \in 0..MaxCandidates
    /\ ragOp = "none"
    /\ rag_result = NoRagResult
    /\ search_hits = <<>>
    /\ all_results = <<>>
    /\ final_docs = <<>>

SpecRag == InitRag /\ [][NextRag]_vars

\* A DocumentProcessor with RAG enabled and a post-retrieval pipeline whose
\* reranker works, is switched off or raises, and the chunks the index holds
\* near each search query of one call.
InitRetrieve ==
    /\ GateIdle /\ StoreIdle /\ ExtractIdle /\ ChunkIdle /\ PreIdle /\ ProcIdle
    /\ TemplatesIdle /\ EmbeddingsIdle /\ PrepareIdle
    /\ documents = <<>> /\ strategies = NoneArg /\ top_k = 0
    /\ reranker \in {"ok", "off", "throws"}
    /\ scorer \in [Contents -> 0..MaxScore]
    /\ postOp = "none" /\ result = <<>>
    /\ threshold = DefaultThreshold /\ max_tokens = 0 /\ final_context = <<>>
    /\ rag_enabled = TRUE
    /\ rag_client \in BOOLEAN
    /\ rag_response = CHOOSE r \in OtherResponses : r.kind = "empty"
    /\ rag_text = "contract"
    /\ candidates = 0
    /\ ragOp = "none"
    /\ rag_result = NoRagResult
    /\ search_hits \in SeqsUpTo(HitLists, MaxSearchQueries)
    /\ all_results = <<>>
    /\ final_docs = <<>>

SpecRetrieve == InitRetrieve /\ [][NextRetrieve]_vars

\* TemplateManager.__init__(templates_dir): self.templates = {} and the first
\* load_templates().
InitTemplates ==
    /\ IdleExcept("templates")
    /\ directory \in [TemplateFiles -> {"absent", "present", "unreadable"}]
    /\ \E last \in TemplateFiles :
          templates = load_templates([s \in Stems |-> NoTemplate], directory, last)
    /\ dir_changes = 0
    /\ tmOp = "load"

SpecTemplates == InitTemplates /\ [][NextTemplates]_vars

\* TemplateEmbeddings.__init__(cache_dir): both dictionaries empty, the model
\* that could be initialised, and a cache directory without a usable file.
InitEmbeddings ==
    /\ IdleExcept("embeddings")
    /\ embeddings_model \in {"sentence", "tfidf", "none"}
    /\ template_texts = EmptyDict
    /\ template_vectors = EmptyDict
    /\ cache_file \in {NoCacheFile, UnreadableCacheFile}
    /\ given_templates = EmptyDict
    /\ embedding_loads = 0
    /\ embOp = "init"

SpecEmbeddings == InitEmbeddings /\ [][NextEmbeddings]_vars

\* A contract text of any length up to the bound that is not blank.
InitPrepare ==
    /\ IdleExcept("prepare")
    /\ contract_length \in 1..MaxTextLength
    /\ prepareOp = "none"
    /\ full_text = NoText

SpecPrepare == InitPrepare /\ [][NextPrepare]_vars

(***************************************************************************)
(*                 Claims about the structured extractor                   *)
(***************************************************************************)

\* C1: for every model output and also without a model, extract_info returns to
\* its caller without raising, and the returned record holds all six fields
\* document_type, brief_description, description, responsible_person, deadline
\* and amount, each non-null.
C1_ExtractInfoReturnsFullRecord ==
    op = "extract_info" =>
        /\ outcome = "returned"
        /\ \A k \in OutKeys : record[k] # Absent

\* extract_info raised to its caller.
C1_ExtractInfoRaised == op = "extract_info" /\ outcome = "raised"

\* Values that stand for nothing.
Placeholders == {"string", "null", "none", "..."}

\* C2: every record built from model output, by the finalize step of
\* _extract_with_llm and by _parse_llm_response alike, has every field non-empty
\* and no field equal to a placeholder: a missing, empty or placeholder value of
\* the model output is replaced by the field's default sentinel.
C2_RecordFieldsFilled ==
    (op \in {"_extract_with_llm", "_parse_llm_response"}
        /\ response.kind \in {"json", "garbled", "empty"}) =>
            \A k \in OutKeys :
                /\ record[k] \notin {Absent, ""}
                /\ Lower(record[k]) \notin Placeholders

\* _parse_llm_response returned a record whose deadline is the text of a JSON null.
C2_NullTextInRecord ==
    /\ op = "_parse_llm_response"
    /\ response.kind = "json"
    /\ response.data["deadline"] = JNull
    /\ record["deadline"] = "None"

(***************************************************************************)
(*                 Claims about the generative-model gate                  *)
(***************************************************************************)

\* C3: at every moment at most 2 generative-model invocations are in flight,
\* counted over all threads, all client instances and every path that calls the
\* model (LLMClient.generate and the direct model calls of the agents).
C3_AtMostTwoInFlight == Cardinality(InFlight) <= Permits

\* Three invocations in flight at once, at least one of them made by an agent
\* outside the gate.
C3_ThreeInFlight ==
    /\ Cardinality(InFlight) = 3
    /\ \E t \in Threads : pc[t] = "agent_incall"

\* Permit accounting of generate: the free permits are the 2 permits minus the
\* threads inside the with block, so all 2 are free when nobody is inside.
C4_PermitAccounting == inference_semaphore = Permits - Cardinality(GateHolders)

\* A thread waiting at the gate is never turned away: it stays waiting or is admitted.
C4_NeverRejected ==
    \A t \in Threads :
        pc[t] = "acquire" => /\ pc'[t] \in {"acquire", "count_read"}
                             /\ ret'[t] = "none"

\* Both permits are held by model calls that never return.
AllPermitsHung == Cardinality({t \in Threads : pc[t] = "hung"}) = Permits

C5_EveryCallReturns ==
    \A t \in Threads : (pc[t] # "idle") ~> (pc[t] = "idle")

\* A model call hangs while its caller is still waiting for it.
C5_HungCall == \E t \in Threads : pc[t] \in {"hung", "agent_hung"}

\* No thread of client c is inside generate: none waits at the gate or is in the with block.
NobodyInGenerate(c) ==
    \A t \in Threads :
        ClientOf(t) = c => pc[t] \notin {"acquire", "count_read", "count_write", "incall", "hung"}

\* C30: on one LLMClient with a loaded model, once N calls of generate have
\* completed and none is under way, _inference_count equals N, whatever the
\* interleaving of the concurrent callers was: no increment is lost.
C30_NoIncrementLost ==
    \A c \in Clients :
        (llm[c] /\ NobodyInGenerate(c)) => inference_count[c] = generate_calls[c]

\* Two calls on the same client were in the with block together, both have
\* completed, and the counter stands at 1.
C30_TwoCallsCountedOnce ==
    \E c \in Clients :
        /\ llm[c]
        /\ NobodyInGenerate(c)
        /\ generate_calls[c] = 2
        /\ inference_count[c] = 1

(***************************************************************************)
(*                    Claims about the vector store                        *)
(***************************************************************************)

C7_PersistedEqualsMemory ==
    (lastOp.op = "add" /\ lastOp.ret.b) => persisted = vector_store

\* add_documents returned True although the index on disk is not the one in memory.
C7_TrueButNotSaved ==
    /\ lastOp.op = "add"
    /\ lastOp.ret.b
    /\ persisted # vector_store

\* A step of load(): without a loadable index on disk it returns False and leaves
\* the in-memory index as it was; right after another load() it returns the same
\* value and leaves the index the first call left.
C8_LoadStep ==
    lastOp'.op = "load" =>
        /\ lastOp'.ret.kind = "bool"
        /\ persisted.kind \in {"none", "corrupt"} =>
              (~lastOp'.ret.b /\ vector_store' = vector_store)
        /\ lastOp.op = "load" =>
              (lastOp'.ret = lastOp.ret /\ vector_store' = vector_store)

\* C8: load() on a directory that holds no persisted index, or a corrupt one,
\* returns False without raising and leaves the in-memory index unchanged; and
\* load() is idempotent: twice in a row gives the same return value and the same
\* index as once.
C8_LoadSafeAndIdempotent == [][C8_LoadStep]_vars

\* load() returned False on a corrupt directory while the store holds an index.
C8_LoadOnCorrupt ==
    /\ lastOp.op = "load"
    /\ ~lastOp.ret.b
    /\ persisted.kind = "corrupt"
    /\ vector_store.kind = "index"

(***************************************************************************)
(*                Claims about the post-retrieval pipeline                 *)
(***************************************************************************)

\* The strategies a call of process asked for.
Requested == IF strategies = NoneArg THEN <<"rerank", "fusion">> ELSE strategies

\* The requested strategies in the order rerank, summary, fusion.
RequestedInFixedOrder ==
    SelectSeq(<<"rerank", "summary", "fusion">>, LAMBDA name : Has(Requested, name))

\* C9: process applies the requested strategies in the order rerank, summary,
\* fusion, whatever the order of their names in the strategies argument; it
\* returns at most top_k documents, the first top_k of the list the last applied
\* strategy left; an empty document list gives an empty list.
C9_ProcessFixedOrderTopK ==
    postOp = "process" =>
        LET left == ApplyInOrder(RequestedInFixedOrder, documents, reranker, scorer)
        IN /\ Len(result) <= top_k
           /\ result = SubSeq(left, 1, Min(top_k, Len(left)))
           /\ (documents = <<>> => result = <<>>)

\* C9 witness: process was asked for fusion before rerank, reranked first all
\* the same, and then merged the two documents that the sort brought to the
\* front ahead of the first retrieved one.
C9_FusionNamedFirst ==
    /\ postOp = "process"
    /\ strategies = <<"fusion", "rerank">>
    /\ reranker = "ok"
    /\ Len(documents) = 3
    /\ Len(result) = 2
    /\ result[1].merged_from = <<2, 3>>
    /\ result[1].rerank_score > result[2].rerank_score
    /\ result[2].id = 1

\* The score the reranker gives a document of the input.
ScoreOf(d) == predict(scorer, Prefix(d.content))

\* The earliest document of the input with the maximal score.
EarliestBest ==
    CHOOSE i \in 1..Len(documents) :
        /\ \A j \in 1..Len(documents) : ScoreOf(documents[j]) <= ScoreOf(documents[i])
        /\ \A j \in 1..(i - 1) : ScoreOf(documents[j]) < ScoreOf(documents[i])

\* C10: _rerank returns a permutation of its input; with a reranker that
\* scores, the permutation is in non-increasing order of score and documents of
\* equal score keep their input order (without one, the input comes back as it
\* is); so process with the strategy rerank and top_k = 1 returns the earliest
\* document of maximal score.
C10_RerankStableDescending ==
    /\ postOp = "_rerank" =>
        /\ Len(result) = Len(documents)
        /\ {result[i].id : i \in 1..Len(result)} = 1..Len(documents)
        /\ \A i \in 1..Len(result) : result[i].content = documents[result[i].id].content
        /\ reranker = "ok" =>
            /\ \A i \in 1..Len(result) : result[i].rerank_score = ScoreOf(result[i])
            /\ \A i, j \in 1..Len(result) :
                  i < j => \/ ScoreOf(result[i]) > ScoreOf(result[j])
                           \/ /\ ScoreOf(result[i]) = ScoreOf(result[j])
                              /\ result[i].id < result[j].id
        /\ reranker # "ok" => result = documents
    /\ (/\ postOp = "process"
        /\ reranker = "ok"
        /\ Has(Requested, "rerank")
        /\ ~Has(Requested, "fusion")
        /\ top_k = 1
        /\ documents # <<>>) =>
            /\ Len(result) = 1
            /\ result[1].id = EarliestBest

\* C10 witness: _rerank sorted three documents of which the last two tie on the
\* maximal score and the first scores less.
C10_TieAtTheTop ==
    /\ postOp = "_rerank"
    /\ reranker = "ok"
    /\ Len(documents) = 3
    /\ ScoreOf(documents[1]) < ScoreOf(documents[2])
    /\ ScoreOf(documents[2]) = ScoreOf(documents[3])
    /\ result[1].id = 2
    /\ result[2].id = 3
    /\ result[3].id = 1

(***************************************************************************)
(*                 Claims about the chunking pipeline                      *)
(***************************************************************************)

\* The last operation applied to the chunk list.
LastChunkOp == IF chunkOps = <<>> THEN "none" ELSE chunkOps[Len(chunkOps)]

\* C11: in the output of merge_small_chunks every chunk other than the last
\* one is at least min_size characters long.
C11_OnlyLastChunkSmall ==
    LastChunkOp = "merge" =>
        \A i \in 1..(Len(chunks) - 1) : CharLen(chunks[i].content) >= min_size

\* C11 witness: merge_small_chunks merged two chunks into one that is still
\* shorter than min_size and is followed by another chunk.
C11_MergedChunkStillSmall ==
    /\ LastChunkOp = "merge"
    /\ Len(chunks) >= 2
    /\ chunks[1].merged
    /\ CharLen(chunks[1].content) < min_size

\* The contents of a chunk list, in order.
ContentsOf(cs) == [i \in 1..Len(cs) |-> cs[i].content]

\* C12: merge_small_chunks applied to its own output gives the same chunk
\* contents in the same order.
C12_MergeIdempotent ==
    (/\ Len(chunkOps) >= 2
     /\ LastChunkOp = "merge"
     /\ chunkOps[Len(chunkOps) - 1] = "merge") =>
        ContentsOf(chunks) = ContentsOf(chunks_before)

\* C12 witness: the second merge_small_chunks in a row returned fewer chunks
\* than the first.
C12_SecondMergeShrinks ==
    /\ Len(chunkOps) >= 2
    /\ LastChunkOp = "merge"
    /\ chunkOps[Len(chunkOps) - 1] = "merge"
    /\ Len(chunks) < Len(chunks_before)

\* The lines found in a chunk list.
CoveredLines(cs) ==
    {l \in 1..MaxLines : \E i \in 1..Len(cs) : \E j \in 1..Len(cs[i].content) :
        cs[i].content[j] = l}

\* C13: every line of the document that is not blank, heading lines included,
\* is in the content of some chunk split_documents returns, and
\* merge_small_chunks and add_context_windows lose no line of the chunks they
\* are given.
C13_NoLineLost ==
    /\ (chunkOps # <<>> /\ chunkOps[1] = "split") =>
          \A l \in 1..Len(source_doc.lines) :
              source_doc.lines[l] # "blank" => l \in CoveredLines(chunks)
    /\ LastChunkOp \in {"merge", "context"} =>
          CoveredLines(chunks_before) \subseteq CoveredLines(chunks)

\* C13 witness: the semantic strategy split a document of two heading lines and
\* a body line; no chunk holds a heading line in its content, and the first
\* heading is not even the section title of a chunk.
C13_HeadingLineLost ==
    /\ chunkOps = <<"split">>
    /\ split_strategy = "semantic"
    /\ source_doc.type = "document"
    /\ source_doc.lines = <<"heading", "heading", "body">>
    /\ CoveredLines(chunks) = {3}
    /\ \A i \in 1..Len(chunks) : chunks[i].semantic_section = 2

(***************************************************************************)
(*               Claims about the pre-retrieval pipeline                   *)
(***************************************************************************)

\* The first place of a value in a list.
FirstIndex(q, v) == CHOOSE i \in 1..Len(q) : q[i] = v /\ \A j \in 1..(i - 1) : q[j] # v

\* C14: for the method expansion, variants[0] is the original query, no variant
\* occurs twice, the variants are exactly the generated ones in the order in
\* which each was first generated, and a second call with the same query
\* returns the same list.
C14_ExpansionVariants ==
    (pre_calls > 0 /\ method = "expansion") =>
        LET v == bundle.variants
            g == GeneratedVariants(query)
        IN /\ v # <<>> /\ v[1] = query
           /\ \A i, j \in 1..Len(v) : i # j => v[i] # v[j]
           /\ extract_keywords(query) # <<>> =>
                /\ {v[i] : i \in 1..Len(v)} = {g[i] : i \in 1..Len(g)}
                /\ \A i, j \in 1..Len(v) : i < j => FirstIndex(g, v[i]) < FirstIndex(g, v[j])
           /\ pre_calls = 2 => bundle_before.variants = v

\* C14 witness: the expansion of "summa" generated the variant "stoimost" twice
\* (as a synonym and by the simple replacement) and returned it once, before
\* the synonyms generated after its first occurrence.
C14_DuplicateVariantRemoved ==
    /\ pre_calls = 2
    /\ method = "expansion"
    /\ query = <<"summa">>
    /\ Len(GeneratedVariants(query)) = 5
    /\ bundle.variants = << <<"summa">>, <<"stoimost">>, <<"summa", "deneg">>, <<"tsena">> >>

\* C15: for the method rewriting, when the model is absent, raises or returns
\* empty text, processed is the deterministic rewrite of the query and
\* variants = [processed].
C15_RewritingFallsBack ==
    (pre_calls > 0 /\ method = "rewriting" /\ pre_llm \in {"absent", "raises", "empty"}) =>
        /\ bundle.processed = query_rewriting_simple(query)
        /\ bundle.variants = <<bundle.processed>>

\* C15 witness: the model raised and the query came back as it was, with its
\* extra whitespace and without the domain keyword.
C15_FailedModelLeavesQuery ==
    /\ pre_calls > 0
    /\ method = "rewriting"
    /\ pre_llm = "raises"
    /\ query = <<"summa", EmptyWord>>
    /\ bundle.processed = query
    /\ query_rewriting_simple(query) = <<"dokument", "summa">>

\* The search queries after the variants.
AddedKeywords == SubSeq(search_queries, Len(bundle.variants) + 1, Len(search_queries))

\* keyword is a substring of some variant of the bundle
InSomeVariant(k) == \E i \in 1..Len(bundle.variants) : ContainsWord(bundle.variants[i], k)

\* C16: get_search_queries returns the variants in order, followed by at most 5
\* keywords of the bundle, none of them a substring of a variant; and a keyword
\* that is in no variant is among them whenever fewer than 5 were added.
C16_KeywordQueries ==
    search_queries # <<>> =>
        /\ SubSeq(search_queries, 1, Len(bundle.variants)) = bundle.variants
        /\ Len(AddedKeywords) <= KeywordLimit
        /\ \A i \in 1..Len(AddedKeywords) :
              /\ Len(AddedKeywords[i]) = 1
              /\ \E n \in 1..Len(bundle.keywords) : bundle.keywords[n] = AddedKeywords[i][1]
              /\ ~InSomeVariant(AddedKeywords[i][1])
        /\ Len(AddedKeywords) < KeywordLimit =>
              \A n \in 1..Len(bundle.keywords) :
                  ~InSomeVariant(bundle.keywords[n]) =>
                      \E i \in 1..Len(AddedKeywords) : AddedKeywords[i] = <<bundle.keywords[n]>>

\* C16 witness: of six keywords the first is in the only variant, the next four
\* were added, and the sixth, which is in no variant, was not.
C16_SixthKeywordSkipped ==
    /\ search_queries # <<>>
    /\ Len(bundle.keywords) = 6
    /\ Len(bundle.variants) = 1
    /\ Len(AddedKeywords) = 4
    /\ ~InSomeVariant(bundle.keywords[6])
    /\ \A i \in 1..Len(AddedKeywords) : AddedKeywords[i] # <<bundle.keywords[6]>>

(***************************************************************************)
(*                 Claims about the contract processor                     *)
(***************************************************************************)

\* The number of keywords of the list the called method uses that occur in the text.
MatchedKeywords ==
    IF procOp = "DocumentProcessor.is_contract" /\ ~proc_rag
    THEN Matches(FallbackKeywords, contract_text.phrases)
    ELSE Matches(CONTRACT_KEYWORDS, contract_text.phrases)

\* C17: is_contract returns the confidence min(1, m/5) for m matched keywords
\* and true exactly when m >= 2, in SimpleRAG and on both paths of
\* DocumentProcessor.is_contract.
C17_ConfidenceIsFifths ==
    procOp \in {"SimpleRAG.is_contract", "DocumentProcessor.is_contract"} =>
        /\ 5 * verdict.confidence.num = Min(MatchedKeywords, 5) * verdict.confidence.den
        /\ verdict.is_contract <=> MatchedKeywords >= 2

\* C17 witness: without a template index, a text with exactly two keywords got
\* the confidence 2/3 from DocumentProcessor.is_contract.
C17_FallbackCountsThirds ==
    /\ procOp = "DocumentProcessor.is_contract"
    /\ ~proc_rag
    /\ MatchedKeywords = 2
    /\ verdict.is_contract
    /\ verdict.confidence = [num |-> 2, den |-> 3]

\* C18: when the model cannot be loaded, extract_contract_info returns what
\* _extract_basic_info finds in the text, on the first call and on later ones.
C18_NoModelGivesHeuristicRecord ==
    (contract_calls > 0 /\ ~model_loadable) =>
        contract_info = extract_basic_info(contract_text)

\* C18 witness: the model could not be loaded, the text holds an amount and a
\* date, and the second call returned a record without them.
C18_AmountOfTextMissing ==
    /\ contract_calls = 2
    /\ ~model_loadable
    /\ proc_llm = "no model"
    /\ contract_text.amount /\ contract_text.date
    /\ contract_info.amount = "" /\ contract_info.date = ""

(***************************************************************************)
(*                Claims about the RAG-augmented extraction                *)
(***************************************************************************)

\* The steps of a list in the order of the list expand, search,
\* rerank+summarize, prompt, generate.
RagStepOrder == <<"expand", "search", "rerank+summarize", "prompt", "generate">>

C20_TemplatesMatchDirectory ==
    tmOp = "load" =>
        \A s \in Stems :
            IF \E f \in TemplateFiles : Stem(f) = s /\ Loadable(directory, f)
            THEN templates[s] # NoTemplate /\ Loadable(directory, templates[s])
            ELSE templates[s] = NoTemplate

\* C20 witness: a.txt was removed from the directory, load_templates ran
\* again, and the manager still holds the template a.
C20_RemovedTemplateStillHeld ==
    /\ tmOp = "load"
    /\ dir_changes > 0
    /\ directory["a.txt"] = "absent"
    /\ templates["a"] = "a.txt"

(***************************************************************************)
(*            Claims about the stages of _extract_with_llm                 *)
(***************************************************************************)

\* The stages in their fixed order.
StageOrder == <<"PARSE", "REGEX_FALLBACK", "SENTENCE_FALLBACK", "FINALIZE">>

\* The place of a stage in the fixed order.
StagePlace(st) == CHOOSE i \in 1..Len(StageOrder) : StageOrder[i] = st

\* The strict JSON parse of the model output failed.
ParseFailed(resp) == resp.kind = "garbled"

\* The dictionary after the parse and, when it ran, the regex stage.
DataBeforeSentences(resp) ==
    CASE resp.kind = "json" -> resp.data
      [] resp.kind = "empty" -> [k \in InKeys |-> NoKey]
      [] OTHER -> RegexData(resp)

\* C21: within one _extract_with_llm call whose model answered, the stages run
\* in the order PARSE, REGEX_FALLBACK, SENTENCE_FALLBACK, FINALIZE; the regex
\* stage runs only if the strict parse failed; the sentence stage runs exactly
\* when brief_description is still missing after the earlier stages; finalize
\* runs on every path; and a field value an earlier stage obtained is never
\* overwritten by a later fallback stage.
C21_StagesInOrder ==
    (op = "_extract_with_llm" /\ response.kind \in {"json", "garbled", "empty"}) =>
        LET ran == {stages_run[i] : i \in 1..Len(stages_run)}
            before == DataBeforeSentences(response)
            after == ParsedData(response)
        IN /\ \A i, j \in 1..Len(stages_run) :
                  i < j => StagePlace(stages_run[i]) < StagePlace(stages_run[j])
           /\ stages_run[1] = "PARSE"
           /\ "REGEX_FALLBACK" \in ran => ParseFailed(response)
           /\ "SENTENCE_FALLBACK" \in ran <=> BriefMissing(before)
           /\ stages_run[Len(stages_run)] = "FINALIZE"
           /\ \A k \in InKeys : before[k] \notin {NoKey, JNull, ""} => after[k] = before[k]

\* The parse succeeded on an object without brief_description and the call went
\* from the parse straight to the finalize step.
C21_ParsedWithoutBriefSkipsSentences ==
    /\ op = "_extract_with_llm"
    /\ response.kind = "json"
    /\ response.data["brief_description"] = NoKey
    /\ stages_run = <<"PARSE", "FINALIZE">>

(***************************************************************************)
(*          Claims about fusion, deduplication and the context             *)
(***************************************************************************)

RECURSIVE IsLeader(_, _)
\* Document j leads a group: no leader before it is similar to it.
IsLeader(docs, j) ==
    \A i \in 1..(j - 1) : IsLeader(docs, i) => ~Similar(docs[i].content, docs[j].content)

\* The leader whose group document j belongs to: itself, or the earliest leader
\* before it that is similar to it.
LeaderOf(docs, j) ==
    IF IsLeader(docs, j) THEN j
    ELSE CHOOSE l \in 1..(j - 1) :
            /\ IsLeader(docs, l) /\ Similar(docs[l].content, docs[j].content)
            /\ \A i \in 1..(l - 1) :
                   ~(IsLeader(docs, i) /\ Similar(docs[i].content, docs[j].content))

\* The members of the group of leader l, in scan order.
GroupOf(docs, l) == IndexSeq({j \in 1..Len(docs) : LeaderOf(docs, j) = l})

\* merged_count of a chunk, 1 for a chunk that was not merged.
CountOf(d) == IF d.merged_count = NoCount THEN 1 ELSE d.merged_count

RECURSIVE SumCounts(_)
SumCounts(ds) == IF ds = <<>> THEN 0 ELSE CountOf(Head(ds)) + SumCounts(Tail(ds))

\* C22: _fusion partitions its input.  The output holds one chunk per group
\* leader, in the scan order of the leaders; a document belongs to the group of
\* the earliest leader before it whose first-50-word Jaccard similarity to it
\* exceeds 0.7 and leads its own group when there is none; a chunk of one member
\* is the document itself, a merged chunk has merged_count equal to its group
\* size, merged_from equal to the sources of exactly its members and the
\* members' contents joined; the merged_count values (1 for an unmerged chunk)
\* sum to the length of the input.
C22_FusionPartitions ==
    postOp = "_fusion" =>
        LET leaders == IndexSeq({j \in 1..Len(documents) : IsLeader(documents, j)})
        IN /\ Len(result) = Len(leaders)
           /\ \A n \in 1..Len(leaders) :
                  LET g == GroupOf(documents, leaders[n])
                      members == [k \in 1..Len(g) |-> documents[g[k]]]
                  IN IF Len(g) = 1 THEN result[n] = documents[leaders[n]]
                     ELSE /\ result[n].id = leaders[n]
                          /\ result[n].merged_count = Len(g)
                          /\ result[n].merged_from = [k \in 1..Len(g) |-> members[k].source]
                          /\ result[n].content = JoinContents(members)
           /\ SumCounts(result) = Len(documents)

\* The third document is similar to both leaders before it and was merged into
\* the first; the second stays a chunk of its own.
C22_JoinedTheEarlierLeader ==
    /\ postOp = "_fusion"
    /\ Len(documents) = 3
    /\ ~Similar(documents[1].content, documents[2].content)
    /\ Similar(documents[2].content, documents[3].content)
    /\ Len(result) = 2
    /\ result[1].merged_count = 2
    /\ result[1].merged_from = <<documents[1].source, documents[3].source>>
    /\ result[2] = documents[2]

\* The list deduplicate returned for the retrieved list.
DeduplicatedOnce ==
    postOp = "deduplicate" =>
        /\ \A i \in 1..Len(result) : result[i] = documents[result[i].id]
        /\ \A i, j \in 1..Len(result) : i < j => result[i].id < result[j].id
        /\ documents # <<>> => (result # <<>> /\ result[1] = documents[1])
        /\ \A i, j \in 1..Len(result) :
               i # j => ~SimilarAbove(result[i].content, result[j].content, threshold)
        /\ \A d \in 1..Len(documents) :
               (\A i \in 1..Len(result) : result[i].id # d) =>
                   \E i \in 1..Len(result) :
                       /\ result[i].id < d
                       /\ SimilarAbove(documents[d].content, result[i].content, threshold)

\* C23: deduplicate(documents, threshold) returns a subsequence of its input
\* that contains the first document, in which no two documents have similarity
\* above the threshold and every dropped document has similarity above the
\* threshold to a kept document before it; deduplicating the returned list again
\* returns the same list.
C23_DeduplicateKeepsFirstOfEach ==
    /\ []DeduplicatedOnce
    /\ [][postOp' = "deduplicate again" => result' = result]_vars

\* A list that lost a document and kept two was deduplicated a second time.
C23_DeduplicatedAgain ==
    /\ postOp = "deduplicate again"
    /\ Len(result) < Len(documents)
    /\ Len(result) >= 2

RECURSIVE PartsLength(_, _)
\* The characters of the parts of the first n documents.
PartsLength(docs, n) == IF n = 0 THEN 0 ELSE PartsLength(docs, n - 1) + Len(Part(docs[n]))

\* C24: the text get_final_context(documents, max_tokens) returns is at most
\* 4 * max_tokens characters long, and it is built from a prefix of the document
\* list: the parts of the first n documents, where document n + 1, if there is
\* one, is the first whose part would exceed the budget.
C24_ContextWithinBudget ==
    postOp = "get_final_context" =>
        /\ Len(final_context) <= 4 * max_tokens
        /\ \E n \in 0..Len(documents) :
               /\ final_context = JoinParts([i \in 1..n |-> Part(documents[i])])
               /\ PartsLength(documents, n) <= 4 * max_tokens
               /\ n < Len(documents) => PartsLength(documents, n + 1) > 4 * max_tokens

\* Two parts fit the budget and the text joined from them does not.
C24_SeparatorOverBudget ==
    /\ postOp = "get_final_context"
    /\ Len(documents) >= 2
    /\ PartsLength(documents, 2) <= 4 * max_tokens
    /\ Len(final_context) > 4 * max_tokens

(***************************************************************************)
(*                 Claims about the chunks of an indexing run               *)
(***************************************************************************)

\* C25: among the chunks process_pipeline returns for the documents of an
\* indexing run (split_documents followed by merge_small_chunks), the chunks of
\* the same source have pairwise distinct chunk_id values, and these values
\* strictly increase in output order.
C25_ChunkIdsIncreasePerSource ==
    (Len(chunkOps) >= 2 /\ chunkOps[1] = "split" /\ chunkOps[2] = "merge") =>
        \A i, j \in 1..Len(chunks) :
            (i < j /\ chunks[i].source = chunks[j].source) =>
                chunks[i].chunk_id < chunks[j].chunk_id

\* One file gave a full-text document and a section document, and after the
\* merge two chunks of that file both have chunk_id 0.
C25_FullTextAndSectionBothZero ==
    /\ chunkOps = <<"split", "merge">>
    /\ Len(template_files) = 1
    /\ Len(chunks) = 2
    /\ chunks[1].source = chunks[2].source
    /\ chunks[1].chunk_id = 0
    /\ chunks[2].chunk_id = 0

(***************************************************************************)
(*                 Claims about the template embeddings                    *)
(***************************************************************************)

\* C26: after every TemplateEmbeddings.load_templates(T) with an embeddings
\* model, also a reload in the same instance and a start that finds a cache
\* file, the stored vectors correspond one-to-one to the templates of T and each
\* was computed from that template's current text: no vector of a changed or
\* removed template is left.
C26_VectorsMatchTemplates ==
    (embOp = "load" /\ embeddings_model # "none") =>
        \A n \in TemplateNames : template_vectors[n] = given_templates[n]

\* Template b was removed from the templates and its vector is still stored.
C26_VectorOfRemovedTemplate ==
    /\ embOp = "load"
    /\ embeddings_model = "sentence"
    /\ given_templates["a"] # NoEntry
    /\ given_templates["b"] = NoEntry
    /\ template_vectors["b"] # NoEntry

(***************************************************************************)
(*                  Claims about a failed add_documents                    *)
(***************************************************************************)

\* A step of add_documents that returns False leaves the in-memory index and the
\* persisted index as they were.
C27_FailedAddStep ==
    (lastOp'.op = "add" /\ ~lastOp'.ret.b) =>
        (vector_store' = vector_store /\ persisted' = persisted)

\* C27: if add_documents returns False the store is unchanged by the call: the
\* in-memory index holds the same chunks as before and the persisted index is
\* the same as before, also when the failure is in a batch after the first.
C27_FailedAddLeavesStore == [][C27_FailedAddStep]_vars

\* add_documents returned False on a store without an index, and the store now
\* holds the chunks of the batches before the failing one.
C27_FirstBatchKept ==
    /\ lastOp.op = "add"
    /\ ~lastOp.ret.b
    /\ lastOp.threw
    /\ ~lastOp.hadIndex
    /\ vector_store.kind = "index"

(***************************************************************************)
(*              Claims about the exemplars of the RAG extraction           *)
(***************************************************************************)

\* No two documents of a list are the same chunk.
NoChunkTwice(ds) == \A i, j \in 1..Len(ds) : i # j => ds[i].content # ds[j].content

====
